---- MODULE Spec2Model ----
(***************************************************************************)
(* AX.25 link layer of mpmm: the per-link connection state machine of      *)
(* mpmm_ax25/ax25_connection.py, with the frame factory of ax25/frame.py   *)
(* and the timer of ax25/timer.py that it uses; the Timer on its own; and  *)
(* the controller, the transport client and the connection object of      *)
(* src/shared/ax25.py; and the KISS and AX.25 codecs of kiss/frame.py and  *)
(* ax25/frame.py as functions on sequences of bytes.                       *)
(***************************************************************************)
EXTENDS Integers, Sequences, FiniteSets, TLC

\* ------------------------------------------------------------------------
\* Bounds of the model
\* ------------------------------------------------------------------------

\* longest outgoing queue explored (queue.Queue() itself is unbounded)
MaxQueue == 2

\* longest list of registered UI handlers explored
MaxHandlers == 2

\* number of successful Timer.start calls explored
MaxStarts == 3

\* largest number of frames queued for sending in one batch
MaxFrames == 4

\* longest send queue explored while the controller routes frames
MaxSend == 2

\* longest _incoming queue of a connection explored
MaxIncoming == 2

\* largest number of per-frame callback tasks alive at once
MaxTasks == 2

\* longest data field of a KISS frame that is encoded
MaxData == 2

\* longest byte stream given to KISSFrame.decode
MaxStream == 5

\* the longest callsign tried (six characters fit an address)
MaxCallsign == 7

\* the largest SSID tried (four bits hold 0..15)
MaxSsid == 16

\* the longest digipeater path
MaxPath == 8

\* the chunks the transport reads
MaxReads == 2

\* the most KISS frames in one chunk
MaxPieces == 2

\* ------------------------------------------------------------------------
\* Values
\* ------------------------------------------------------------------------

\* AX25ConnectionState
ConnectionStates ==
  {"DISCONNECTED", "AWAITING_CONNECTION", "AWAITING_RELEASE", "CONNECTED", "TIMER_RECOVERY"}

\* AX25Modulo
Modulos == {"UNSPECIFIED", "MOD_8", "MOD_128"}

\* TimerState
TimerStates == {"STOPPED", "RUNNING", "EXPIRED"}

\* AX25FrameType is an enum.Flag: a value is a set of flags, == is set
\* equality and & is intersection.
I_FRAME == {"I_FRAME"}

S_FRAME == {"S_FRAME"}

U_FRAME == {"U_FRAME"}

SupTypes == {"SUP_RR", "SUP_RNR", "SUP_REJ", "SUP_SREJ"}

UnnTypes == {"UNN_SABME", "UNN_SABM", "UNN_DISC", "UNN_DM", "UNN_UA", "UNN_FRMR",
             "UNN_UI", "UNN_XID", "UNN_TEST"}

\* the frame types AX25ControlField.decode can produce
FrameTypes ==
  {I_FRAME} \cup {S_FRAME \cup {s} : s \in SupTypes} \cup {U_FRAME \cup {u} : u \in UnnTypes}

\* Flag values combined with | in the handlers
Unn(u) == {u} \cup U_FRAME

Sup(s) == {s} \cup S_FRAME

\* a slip in the flag test: the two values compared with == where the code
\* tests them with &
FlagEq(a, b) == a = b

\* `a & b` used as a condition: true iff the two flag values share a flag
FlagAnd(a, b) == (a \cap b) # {}

\* AX25Address, the reserved bits at their defaults
AX25Address(callsign, ssid, crb) ==
  [callsign |-> callsign, ssid |-> ssid, reserved_bit_5 |-> TRUE,
   reserved_bit_6 |-> TRUE, command_repeat_bit |-> crb]

\* the local station of the connection under study
LocalCall == <<"K0JLB", 9>>

\* the remote stations frames arrive from
RemoteCalls == {<<"NOCALL", 15>>}

\* remote_address before any peer is known
None == AX25Address("None", 0, FALSE)

\* AX25AddressField
AX25AddressField(source, destination, path, length) ==
  [source |-> source, destination |-> destination, path |-> path, length |-> length]

\* AX25ControlField, with length, sequence and receive at their defaults
AX25ControlField(frame_type, poll_final) ==
  [frame_type |-> frame_type, poll_final |-> poll_final,
   length |-> 0, sequence |-> 0, receive |-> 0]

\* AX25Frame, modulo 8, with no information (None, written as the empty
\* tuple; information b is written <<b>>)
AX25Frame(address_field, control_field, pid) ==
  [address_field |-> address_field, control_field |-> control_field, pid |-> pid,
   information |-> <<>>]

\* no frame handled by the last step
NoFrame ==
  AX25Frame(AX25AddressField(None, None, <<>>, 0), AX25ControlField({}, FALSE), "None")

\* AX25Frame.decode: a PID is read for I and UI frames only
PidOf(frame_type) ==
  IF FlagAnd(frame_type, I_FRAME \cup {"UNN_UI"}) THEN "NO_LAYER_3" ELSE "None"

\* the frames the transport can hand to the connection: sent by a remote
\* station to the local one, the source carrying the command bit, with any
\* frame type and any P/F
InFrames ==
  { AX25Frame(AX25AddressField(AX25Address(r[1], r[2], TRUE),
                               AX25Address(LocalCall[1], LocalCall[2], FALSE), <<>>, 0),
              AX25ControlField(t, p), PidOf(t))
    : r \in RemoteCalls, t \in FrameTypes, p \in BOOLEAN }

\* the frames of the study of UI delivery: UI frames, and the SABM that
\* opens the link
UIInFrames ==
  { f \in InFrames : f.control_field.frame_type \in {{"U_FRAME", "UNN_UI"}, {"U_FRAME", "UNN_SABM"}} }

\* the UI handlers a caller can register
Handlers == {"h1", "h2"}

\* the modulus of the sequence variables of a MOD_8 link
SequenceModulus == 8

\* the send window: _window_size of a connection
WindowSize == 7

\* ------------------------------------------------------------------------
\* State
\* ------------------------------------------------------------------------

VARIABLES
  state,                     \* AX25Connection.state
  remote_address,            \* AX25Connection.remote_address
  modulo,                    \* AX25Connection.modulo
  outgoing_frames,           \* AX25Connection.outgoing_frames
  ui_handlers,               \* AX25Connection._ui_handlers
  peer_busy,                 \* AX25Connection.peer_busy
  sequence_number,           \* V(S)
  receive_sequence_number,   \* V(R)
  ack_sequence_number,       \* V(A)
  outstanding_i_frame_timer, \* state of T1
  keepalive_timer,           \* state of T3
  op,                        \* history: the operation the last step performed
  inframe,                   \* history: the frame the last step handled
  pre,                       \* history: the connection when the last step began
  ui_calls,                  \* history: handler calls the last step made, in order
  error,                     \* history: exception the last step raised
  timer_obj,                 \* a Timer studied on its own: _state, _timeout, _task
  timer_hist,                \* history of that Timer's last operation
  client_outgoing,           \* AX25Client._outgoing: the heap of the PriorityQueue
  client_hist,               \* history: frames handed to the TNC in this drain
  connections,               \* AX25Controller._connections, in insertion order
  listeners,                 \* AX25Controller._listeners
  ui_callbacks,              \* AX25Controller._ui_callbacks
  controller,                \* AX25Controller: _shutdown_requested, _active, its loop
  ctl_hist,                  \* history of the controller's last operation
  tasks,                     \* the per-frame callback tasks alive, oldest first
  listen_hist,               \* history: the task the last step ran
  codec,                     \* the last call of a codec: its input and its result
  transport                  \* KISSTCPClient.listen_loop: its task and the frames passed on

\* the variables of the connection of mpmm_ax25/ax25_connection.py
connection_vars ==
  <<state, remote_address, modulo, outgoing_frames, ui_handlers, peer_busy,
    sequence_number, receive_sequence_number, ack_sequence_number,
    outstanding_i_frame_timer, keepalive_timer, op, inframe, pre, ui_calls, error>>

\* the variables of the Timer studied on its own
timer_vars == <<timer_obj, timer_hist>>

\* the variables of the transport client of src/shared/ax25.py
client_vars == <<client_outgoing, client_hist>>

\* the variables of the controller of src/shared/ax25.py and its connections
controller_vars == <<connections, listeners, ui_callbacks, controller, ctl_hist>>

\* the tasks KISSTCPClient.listen_loop creates, one per decoded frame
listen_vars == <<tasks, listen_hist, transport>>

\* everything a step of the connection leaves alone
outside_connection == <<timer_vars, client_vars, controller_vars, listen_vars, codec>>

vars == <<connection_vars, timer_vars, client_vars, controller_vars, listen_vars, codec>>

\* the connection object as one value, for the handlers below; ui_calls and
\* error collect what one call of a handler did
Self ==
  [state |-> state, remote_address |-> remote_address, modulo |-> modulo,
   outgoing_frames |-> outgoing_frames, ui_handlers |-> ui_handlers,
   peer_busy |-> peer_busy, sequence_number |-> sequence_number,
   receive_sequence_number |-> receive_sequence_number,
   ack_sequence_number |-> ack_sequence_number,
   outstanding_i_frame_timer |-> outstanding_i_frame_timer,
   keepalive_timer |-> keepalive_timer,
   ui_calls |-> <<>>, error |-> "none"]

\* ------------------------------------------------------------------------
\* Timer (ax25/timer.py)
\* ------------------------------------------------------------------------

\* a slip in start: the guard on RUNNING is missing, every call restarts the
\* timer
Timer_start_unguarded(t) == [state |-> "RUNNING", raised |-> FALSE]

\* Timer.start: raises TimerError on a RUNNING timer, otherwise the timer is
\* RUNNING and its task is scheduled
Timer_start(timer) ==
  IF timer = "RUNNING"
    THEN [state |-> timer, raised |-> TRUE]
    ELSE [state |-> "RUNNING", raised |-> FALSE]

\* the timeouts given to a Timer (test_timer.py builds timers of 10 s and
\* 30 s; 0 is the default of the constructor)
TimeoutValues == {0, 10, 30}

\* TimerResult
TimerResults == {"EXPIRED", "CANCELLED", "ERROR"}

\* the states of Timer._task: no task yet, a task sleeping in _run, a task
\* cancelled by stop, a task that ran _on_expire to its end
TaskStates == {"None", "pending", "cancelled", "done"}

\* Timer.__init__
Timer(timeout) == [_state |-> "STOPPED", _timeout |-> timeout, _task |-> "None"]

\* the timeout setter: raises TimerError on a RUNNING timer, otherwise stores
\* the value
Timer_set_timeout(t, value) ==
  IF t._state = "RUNNING"
    THEN [timer |-> t, raised |-> TRUE]
    ELSE [timer |-> [t EXCEPT !._timeout = value], raised |-> FALSE]

\* Timer.start on the whole object: the new task replaces the old one
Timer_start_task(t) ==
  LET r == Timer_start(t._state)
  IN  IF r.raised
        THEN [timer |-> t, raised |-> TRUE]
        ELSE [timer |-> [t EXCEPT !._state = r.state, !._task = "pending"],
              raised |-> FALSE]

\* Timer._run / Timer._on_expire, once the sleep of a task that was not
\* cancelled has ended: the timer is EXPIRED and the callback is awaited with
\* EXPIRED
Timer_on_expire(t) ==
  [timer |-> [t EXCEPT !._state = "EXPIRED", !._task = "done"],
   callbacks |-> <<"EXPIRED">>]

\* Timer.stop: raises TimerError on a STOPPED timer; otherwise cancels the
\* task if there is one (cancelling a finished task does nothing), awaits the
\* callback with CANCELLED and then sets STOPPED
Timer_stop(t) ==
  IF t._state = "STOPPED"
    THEN [timer |-> t, raised |-> TRUE, callbacks |-> <<>>]
    ELSE [timer |-> [t EXCEPT !._task = IF @ = "pending" THEN "cancelled" ELSE @,
                              !._state = "STOPPED"],
          raised |-> FALSE, callbacks |-> <<"CANCELLED">>]

\* `timer.stop()` written without await: Timer.stop is an `async def`, so the
\* call only builds a coroutine object and no line of its body runs
stop_not_awaited(timer) == timer

\* `timer.start()` written without await, likewise
start_not_awaited(timer) == timer

\* ------------------------------------------------------------------------
\* Frame factory (ax25/frame.py)
\* ------------------------------------------------------------------------

\* a slip in get_response_field: the response keeps the received source and
\* destination where the code swaps them
get_response_field_unswapped(address_field) ==
  AX25AddressField([address_field.source EXCEPT !.command_repeat_bit = TRUE],
                   [address_field.destination EXCEPT !.command_repeat_bit = FALSE],
                   address_field.path, address_field.length)

\* a slip in get_response_field: the path is copied in the received order
get_response_field_path_kept(address_field) ==
  AX25AddressField([address_field.destination EXCEPT !.command_repeat_bit = TRUE],
                   [address_field.source EXCEPT !.command_repeat_bit = FALSE],
                   [i \in 1..Len(address_field.path) |->
                      [address_field.path[i] EXCEPT !.command_repeat_bit = FALSE]],
                   address_field.length)

\* AX25AddressField.get_response_field, for a field whose addresses are
\* distinct objects, as decode builds it: the path is self.path[::-1], and
\* the loop over self.path clears the bit of the very objects of that list
get_response_field(address_field) ==
  AX25AddressField([address_field.destination EXCEPT !.command_repeat_bit = TRUE],
                   [address_field.source EXCEPT !.command_repeat_bit = FALSE],
                   [i \in 1..Len(address_field.path) |->
                      [address_field.path[Len(address_field.path) + 1 - i]
                         EXCEPT !.command_repeat_bit = FALSE]],
                   address_field.length)

\* a slip in dm_response: the control field is built without the caller's
\* poll_final, so it takes the field's own value False
dm_response_without_pf(axframe, poll_final) ==
  AX25Frame(get_response_field(axframe.address_field),
            AX25ControlField({"U_FRAME", "UNN_DM"}, FALSE), "NONE")

\* AX25FrameFactory.dm_response
dm_response(axframe, poll_final) ==
  AX25Frame(get_response_field(axframe.address_field),
            AX25ControlField(U_FRAME \cup {"UNN_DM"}, poll_final), "NONE")

\* a slip in ua_response: the control field is built without the caller's
\* poll_final
ua_response_without_pf(axframe, poll_final) ==
  AX25Frame(get_response_field(axframe.address_field),
            AX25ControlField({"U_FRAME", "UNN_UA"}, FALSE), "NONE")

\* AX25FrameFactory.ua_response
ua_response(axframe, poll_final) ==
  AX25Frame(get_response_field(axframe.address_field),
            AX25ControlField(U_FRAME \cup {"UNN_UA"}, poll_final), "NONE")

\* ------------------------------------------------------------------------
\* AX25Connection (mpmm_ax25/ax25_connection.py)
\* ------------------------------------------------------------------------

\* a slip in _reset_state: V(R) is set to the modulus, not to 0
_reset_state_to_modulus(c, discard_outgoing_frames) ==
  [c EXCEPT !.outgoing_frames = IF discard_outgoing_frames THEN <<>> ELSE @,
            !.sequence_number = 0,
            !.receive_sequence_number = SequenceModulus,
            !.ack_sequence_number = 0]

\* a slip in _reset_state: the queue is never replaced
_reset_state_keeps_queue(c, discard_outgoing_frames) ==
  [c EXCEPT !.sequence_number = 0,
            !.receive_sequence_number = 0,
            !.ack_sequence_number = 0]

\* AX25Connection._reset_state
_reset_state(c, discard_outgoing_frames) ==
  [c EXCEPT
     !.outstanding_i_frame_timer =
        IF @ = "RUNNING" THEN stop_not_awaited(@) ELSE @,
     !.keepalive_timer =
        IF @ = "RUNNING" THEN stop_not_awaited(@) ELSE @,
     !.outgoing_frames = IF discard_outgoing_frames THEN <<>> ELSE @,
     !.sequence_number = 0,
     !.receive_sequence_number = 0,
     !.ack_sequence_number = 0]

\* AX25Connection.send_ax25_frame
send_ax25_frame(c, frame) ==
  [c EXCEPT !.outgoing_frames = Append(@, frame)]

\* a slip in handle_ui_frame: the loop returns after the first handler
handle_ui_frame_first_only(c, frame) ==
  [c EXCEPT !.ui_calls =
     IF c.ui_handlers = <<>> THEN @
     ELSE @ \o <<[handler |-> c.ui_handlers[1], frame |-> frame]>>]

\* AX25Connection.handle_ui_frame: every handler of the list is awaited, in
\* list order, with the frame
handle_ui_frame(c, frame) ==
  [c EXCEPT !.ui_calls =
     @ \o [i \in 1..Len(c.ui_handlers) |-> [handler |-> c.ui_handlers[i], frame |-> frame]]]

\* the SABM / SABME branch of disconnected_frame_handler that accepts the
\* connection.  remote_address is bound to the frame's source object, which
\* ua_response then hands to get_response_field as the response's destination.
accept_connection(c, frame, new_modulo) ==
  LET c1 == [c EXCEPT !.modulo = new_modulo,
                      !.remote_address = frame.address_field.source]
      c2 == _reset_state(c1, TRUE)
      started == Timer_start(c2.keepalive_timer)
      ua == ua_response(frame, frame.control_field.poll_final)
  IN  IF started.raised
        THEN [c2 EXCEPT !.error = "TimerError"]
        ELSE [send_ax25_frame([c2 EXCEPT !.keepalive_timer = started.state], ua)
                EXCEPT !.remote_address = ua.address_field.destination,
                       !.state = "CONNECTED"]

\* AX25Connection.disconnected_frame_handler
disconnected_frame_handler(c, frame) ==
  LET frame_type == frame.control_field.frame_type
      poll_final == frame.control_field.poll_final
  IN  IF frame_type = Unn("UNN_SABM") THEN
        IF c.modulo # "MOD_128"
          THEN accept_connection(c, frame, "MOD_8")
          ELSE send_ax25_frame(c, dm_response(frame, poll_final))
      ELSE IF frame_type = Unn("UNN_SABME") THEN
        IF c.modulo # "MOD_8"
          THEN accept_connection(c, frame, "MOD_128")
          ELSE send_ax25_frame(c, dm_response(frame, poll_final))
      ELSE IF frame_type = Unn("UNN_UI") THEN
        LET c1 == handle_ui_frame(c, frame)
        IN  IF poll_final THEN send_ax25_frame(c1, dm_response(frame, TRUE)) ELSE c1
      ELSE IF frame_type = Unn("UNN_DISC") THEN
        send_ax25_frame(c, dm_response(frame, poll_final))
      ELSE c

\* AX25Connection.awaiting_connection_frame_handler
awaiting_connection_frame_handler(c, frame) ==
  LET frame_type == frame.control_field.frame_type
      poll_final == frame.control_field.poll_final
  IN  IF frame_type = Unn("UNN_SABM") THEN
        send_ax25_frame(c, ua_response(frame, poll_final))
      ELSE IF frame_type = Unn("UNN_SABME") THEN
        send_ax25_frame(c, dm_response(frame, poll_final))
      ELSE IF frame_type = Unn("UNN_DISC") THEN
        send_ax25_frame(c, dm_response(frame, poll_final))
      ELSE IF frame_type = Unn("UNN_UI") THEN
        LET c1 == handle_ui_frame(c, frame)
        IN  IF poll_final THEN send_ax25_frame(c1, dm_response(frame, TRUE)) ELSE c1
      ELSE IF frame_type = Unn("UNN_DM") THEN
        IF poll_final
          THEN [_reset_state(c, TRUE) EXCEPT !.state = "DISCONNECTED"]
          ELSE c
      ELSE IF frame_type = Unn("UNN_UA") THEN
        IF poll_final
          THEN [_reset_state([c EXCEPT !.remote_address = frame.address_field.source], TRUE)
                  EXCEPT !.state = "CONNECTED"]
          ELSE c
      ELSE c

\* AX25Connection.awaiting_release_frame_handler
awaiting_release_frame_handler(c, frame) ==
  LET frame_type == frame.control_field.frame_type
      poll_final == frame.control_field.poll_final
  IN  IF frame_type = Unn("UNN_SABM") THEN
        send_ax25_frame(c, dm_response(frame, poll_final))
      ELSE IF frame_type = Unn("UNN_DISC") THEN
        send_ax25_frame(c, ua_response(frame, poll_final))
      ELSE IF frame_type = Unn("UNN_UI") THEN
        LET c1 == handle_ui_frame(c, frame)
        IN  IF poll_final THEN send_ax25_frame(c1, dm_response(frame, TRUE)) ELSE c1
      ELSE IF FlagAnd(frame_type, S_FRAME) THEN
        IF poll_final THEN send_ax25_frame(c, dm_response(frame, TRUE)) ELSE c
      ELSE IF frame_type = Unn("UNN_UA") THEN
        IF poll_final
          THEN [_reset_state(c, TRUE) EXCEPT !.state = "DISCONNECTED"]
          ELSE c
      ELSE IF frame_type = Unn("UNN_DM") THEN
        IF poll_final
          THEN [_reset_state(c, TRUE) EXCEPT !.state = "DISCONNECTED"]
          ELSE c
      ELSE c

\* AX25Connection.connected_frame_handler
connected_frame_handler(c, frame) ==
  LET frame_type == frame.control_field.frame_type
      poll_final == frame.control_field.poll_final
  IN  IF frame_type = Unn("UNN_UI") THEN
        handle_ui_frame(c, frame)
      ELSE IF frame_type = Unn("UNN_DISC") THEN
        [_reset_state(send_ax25_frame(c, ua_response(frame, poll_final)), TRUE)
           EXCEPT !.state = "DISCONNECTED"]
      ELSE IF frame_type = Unn("UNN_SABM") \/ frame_type = Unn("UNN_SABME") THEN
        LET c1 == send_ax25_frame(c, ua_response(frame, poll_final))
            c2 == _reset_state(c1, c1.sequence_number # c1.ack_sequence_number)
        IN  [c2 EXCEPT !.keepalive_timer = start_not_awaited(@)]
      ELSE IF frame_type = Unn("UNN_UA") THEN
        [c EXCEPT !.state = "AWAITING_CONNECTION"]
      ELSE IF frame_type = Unn("UNN_DM") THEN
        [_reset_state(c, TRUE) EXCEPT !.state = "DISCONNECTED"]
      ELSE IF frame_type = Unn("UNN_FRMR") THEN
        [c EXCEPT !.state = "AWAITING_CONNECTION"]
      ELSE IF frame_type = Sup("SUP_RR") THEN
        [c EXCEPT !.peer_busy = FALSE]
      ELSE IF frame_type = Sup("SUP_RNR") THEN
        [c EXCEPT !.peer_busy = TRUE]
      ELSE c

\* AX25Connection.timer_recovery_frame_handler
timer_recovery_frame_handler(c, frame) == c

\* a slip in handle_ax25_frame: the AWAITING_RELEASE case calls the handler of
\* AWAITING_CONNECTION
handle_ax25_frame_misrouted(c, frame) ==
  CASE c.state = "DISCONNECTED" -> disconnected_frame_handler(c, frame)
    [] c.state = "AWAITING_CONNECTION" -> awaiting_connection_frame_handler(c, frame)
    [] c.state = "AWAITING_RELEASE" -> awaiting_connection_frame_handler(c, frame)
    [] c.state = "CONNECTED" -> connected_frame_handler(c, frame)
    [] c.state = "TIMER_RECOVERY" -> timer_recovery_frame_handler(c, frame)

\* AX25Connection.handle_ax25_frame
handle_ax25_frame(c, frame) ==
  CASE c.state = "DISCONNECTED" -> disconnected_frame_handler(c, frame)
    [] c.state = "AWAITING_CONNECTION" -> awaiting_connection_frame_handler(c, frame)
    [] c.state = "AWAITING_RELEASE" -> awaiting_release_frame_handler(c, frame)
    [] c.state = "CONNECTED" -> connected_frame_handler(c, frame)
    [] c.state = "TIMER_RECOVERY" -> timer_recovery_frame_handler(c, frame)

\* list.remove: drops the first occurrence of the handler
RemoveFirst(s, h) ==
  LET i == CHOOSE k \in 1..Len(s) : s[k] = h /\ \A j \in 1..(k - 1) : s[j] # h
  IN  SubSeq(s, 1, i - 1) \o SubSeq(s, i + 1, Len(s))

\* ------------------------------------------------------------------------
\* The Timer on its own: start, stop, natural expiry and the timeout setter
\* in every order.  The callback is one that returns without suspending, as
\* the two callbacks of the connection do.
\* ------------------------------------------------------------------------

\* Timer(callback) and no operation yet
InitTimer ==
  /\ timer_obj = Timer(0)
  /\ timer_hist = [op |-> "init", error |-> "none", arg |-> 0, pre |-> Timer(0),
                   step_calls |-> <<>>, calls |-> <<>>, starts |-> 0, pre_starts |-> 0]

\* the history of one operation on the Timer: what it was called on, what it
\* raised, the callbacks it made, and the callbacks made since the last
\* successful start
TimerStep(name, arg, raised, callbacks, started) ==
  timer_hist' =
    [op |-> name, error |-> IF raised THEN "TimerError" ELSE "none", arg |-> arg,
     pre |-> timer_obj, step_calls |-> callbacks,
     calls |-> IF started THEN <<>> ELSE timer_hist.calls \o callbacks,
     starts |-> IF started THEN timer_hist.starts + 1 ELSE timer_hist.starts,
     pre_starts |-> timer_hist.starts]

\* await timer.start()
TimerStart ==
  LET r == Timer_start_task(timer_obj)
  IN  /\ r.raised \/ timer_hist.starts < MaxStarts
      /\ timer_obj' = r.timer
      /\ TimerStep("start", 0, r.raised, <<>>, ~r.raised)
      /\ UNCHANGED <<connection_vars, listen_vars, codec, client_vars, controller_vars>>

\* the sleep of the timer's task ends
TimerExpire ==
  /\ timer_obj._task = "pending"
  /\ timer_obj' = Timer_on_expire(timer_obj).timer
  /\ TimerStep("expire", 0, FALSE, Timer_on_expire(timer_obj).callbacks, FALSE)
  /\ UNCHANGED <<connection_vars, listen_vars, codec, client_vars, controller_vars>>

\* await timer.stop()
TimerStop ==
  LET r == Timer_stop(timer_obj)
  IN  /\ timer_obj' = r.timer
      /\ TimerStep("stop", 0, r.raised, r.callbacks, FALSE)
      /\ UNCHANGED <<connection_vars, listen_vars, codec, client_vars, controller_vars>>

\* timer.timeout = value
TimerSetTimeout ==
  \E value \in TimeoutValues :
    LET r == Timer_set_timeout(timer_obj, value)
    IN  /\ timer_obj' = r.timer
        /\ TimerStep("set_timeout", value, r.raised, <<>>, FALSE)
        /\ UNCHANGED <<connection_vars, listen_vars, codec, client_vars, controller_vars>>

NextTimer ==
  \/ TimerStart
  \/ TimerExpire
  \/ TimerStop
  \/ TimerSetTimeout

\* ------------------------------------------------------------------------
\* AX25Client (src/shared/ax25.py): the send queue.  asyncio.PriorityQueue
\* keeps its items in a list ordered by heapq; positions are counted from 1
\* here, so the parent of pos is pos \div 2 and its children 2*pos, 2*pos+1.
\* ------------------------------------------------------------------------

\* the priorities given to frames: 1 for control frames, 5 the default
Priorities == {1, 5}

\* AX25ClientFrame
AX25ClientFrame(axframe, port, priority) ==
  [axframe |-> axframe, port |-> port, priority |-> priority]

\* AX25ClientFrame.__lt__: only the priorities are compared
ClientFrame_lt(a, b) == a.priority < b.priority

\* heapq._siftdown: newitem climbs from pos while it is less than its parent
RECURSIVE _siftdown_from(_, _, _, _)
_siftdown_from(heap, startpos, pos, newitem) ==
  IF pos > startpos /\ ClientFrame_lt(newitem, heap[pos \div 2])
    THEN _siftdown_from([heap EXCEPT ![pos] = heap[pos \div 2]], startpos, pos \div 2, newitem)
    ELSE [heap EXCEPT ![pos] = newitem]

_siftdown(heap, startpos, pos) == _siftdown_from(heap, startpos, pos, heap[pos])

\* heapq._siftup: the smaller child is moved up until a leaf is reached (the
\* right child when the left one is not less than it), then newitem is put
\* there and sifted down
RECURSIVE _siftup_from(_, _, _, _)
_siftup_from(heap, startpos, pos, newitem) ==
  LET childpos == 2 * pos
      rightpos == childpos + 1
      child == IF rightpos <= Len(heap) /\ ~ClientFrame_lt(heap[childpos], heap[rightpos])
                 THEN rightpos ELSE childpos
  IN  IF childpos <= Len(heap)
        THEN _siftup_from([heap EXCEPT ![pos] = heap[child]], startpos, child, newitem)
        ELSE _siftdown([heap EXCEPT ![pos] = newitem], startpos, pos)

_siftup(heap, pos) == _siftup_from(heap, pos, pos, heap[pos])

\* heapq.heappush
heappush(heap, item) == _siftdown(Append(heap, item), 1, Len(heap) + 1)

\* heapq.heappop on a heap that is not empty
heappop(heap) ==
  LET lastelt == heap[Len(heap)]
      rest == SubSeq(heap, 1, Len(heap) - 1)
  IN  IF rest = <<>>
        THEN [item |-> lastelt, heap |-> <<>>]
        ELSE [item |-> rest[1], heap |-> _siftup([rest EXCEPT ![1] = lastelt], 1)]

\* AX25Client.queue_for_sending (PriorityQueue.put_nowait)
queue_for_sending(outgoing, client_frame) == heappush(outgoing, client_frame)

\* AX25Client.__init__: an empty queue, nothing handed to the TNC
InitClient ==
  /\ client_outgoing = <<>>
  /\ client_hist = [op |-> "init", sent |-> <<>>, late |-> FALSE]

\* a caller queues the next frame of a batch at some priority.  The frame is
\* named by its place in the batch; a batch ends when main_loop has emptied
\* the queue.
QueueForSending ==
  \E priority \in Priorities :
    LET fresh == client_outgoing = <<>> /\ client_hist.sent # <<>>
        n == IF fresh THEN 1 ELSE Len(client_hist.sent) + Len(client_outgoing) + 1
    IN  /\ n <= MaxFrames
        /\ client_outgoing' = queue_for_sending(client_outgoing, AX25ClientFrame(n, 0, priority))
        /\ client_hist' = [op |-> "queue_for_sending",
                           sent |-> IF fresh THEN <<>> ELSE client_hist.sent,
                           late |-> ~fresh /\ (client_hist.late \/ client_hist.sent # <<>>)]
        /\ UNCHANGED <<connection_vars, listen_vars, codec, timer_vars, controller_vars>>

\* AX25Client.main_loop, one turn of its inner loop: the frame get_nowait
\* returns is handed to the TNC
SendNext ==
  /\ client_outgoing # <<>>
  /\ client_outgoing' = heappop(client_outgoing).heap
  /\ client_hist' = [client_hist EXCEPT !.op = "send",
                                        !.sent = Append(@, heappop(client_outgoing).item)]
  /\ UNCHANGED <<connection_vars, listen_vars, codec, timer_vars, controller_vars>>

NextQueue ==
  \/ QueueForSending
  \/ SendNext

\* ------------------------------------------------------------------------
\* AX25Connection and AX25Controller of src/shared/ax25.py
\* ------------------------------------------------------------------------

\* the stations of this host a listener can be registered for
ListenerCalls == {<<"K0JLB", 9>>, <<"K0JLB", 7>>}

\* the transport (an AX25Client) frames arrive on where one transport is
\* studied
ClientIds == {"c1"}

\* two transports, each built as AX25Client(kiss_client), without a client_id,
\* the way ax25test.py builds its client
Clients == {"c1", "c2"}

\* the value of the default `client_id: UUID = uuid4()` of AX25Client.__init__:
\* the call is evaluated once, when the def statement is executed
DefaultClientId == "uuid4"

\* AX25Client.id of a client built without a client_id
AX25Client_id(client) == DefaultClientId

\* the TNC ports frames arrive on
KissPorts == {0}

\* the UI observers a caller can register with the controller
UICallbacks == {"u1", "u2"}

\* AX25Address.call_with_ssid: the text callsign-ssid, kept as the pair
call_with_ssid(address) == <<address.callsign, address.ssid>>

\* AX25Listener: the listener of a callsign with its own accept callback
AX25Listener(callsign) ==
  [callsign |-> callsign, incoming_callback |-> <<"accept", callsign>>]

\* the control fields the controller is studied with: UI with either P/F,
\* and SABM with P set for the frames that are not UI (the controller never
\* looks at the type of those)
CtlControlFields ==
  {AX25ControlField(Unn("UNN_UI"), p) : p \in BOOLEAN}
    \cup {AX25ControlField(Unn("UNN_SABM"), TRUE)}

\* the frames a transport hands to the controller: from the remote station
\* to one of the local stations
CtlInFrames ==
  { AX25Frame(AX25AddressField(AX25Address(r[1], r[2], TRUE),
                               AX25Address(l[1], l[2], FALSE), <<>>, 0),
              ctl, PidOf(ctl.frame_type))
    : r \in RemoteCalls, l \in ListenerCalls, ctl \in CtlControlFields }

\* the connection requests among them
CtlSabmFrames ==
  { f \in CtlInFrames : f.control_field.frame_type = Unn("UNN_SABM") }

\* a frame after get_response_field has been applied to its address field:
\* the response shares the two address objects with it, so its own source and
\* destination carry the command bits written for the response
after_response(axframe) ==
  [axframe EXCEPT !.address_field.source.command_repeat_bit = FALSE,
                  !.address_field.destination.command_repeat_bit = TRUE]

\* AX25Connection.__init__, with the task that Controller.data_recieved
\* creates for AX25Connection.start
SharedConnection(local_callsign, remote_callsign, client, port) ==
  [_local |-> local_callsign, _remote |-> remote_callsign, _client |-> client,
   _port |-> port, _incoming |-> <<>>, _state |-> "DISCONNECTED", _active |-> FALSE,
   _next_sequence |-> 0, _last_ack |-> 0, _last_recieved |-> 0,
   _window_size |-> 7, _extended |-> TRUE, _srej |-> TRUE,
   start_task |-> FALSE]

\* a slip in get_connection_id: the local callsign is left out of the text
\* that is hashed
get_connection_id_without_local(local_callsign, remote_callsign, client_id, port) ==
  <<remote_callsign, remote_callsign, client_id, port>>

\* AX25Connection.get_connection_id: the sha1 of the text
\* local<->remote@client:port, kept as the tuple the text is built from
get_connection_id(local_callsign, remote_callsign, client_id, port) ==
  <<local_callsign, remote_callsign, client_id, port>>

\* AX25Connection.connection_id: the sha1 of str(self), which names the
\* client by its id
connection_id(c) ==
  get_connection_id(c._local, c._remote, AX25Client_id(c._client), c._port)

\* AX25Connection.recieve
recieve(c, frame) == [c EXCEPT !._incoming = Append(@, frame)]

\* AX25Connection.stop
connection_stop(c, abort) ==
  IF abort
    THEN [c EXCEPT !._active = FALSE]
    ELSE [c EXCEPT !._state = "AWAITING_RELEASE"]

\* the connection after one frame, with the frames it queued for sending.
\* AX25Connection._disconnected_state_frame_handler: the tests are `in` tests
\* on the frame type, tried in this order
_disconnected_state_frame_handler(c, frame) ==
  LET frame_type == frame.control_field.frame_type
      poll_final == frame.control_field.poll_final
      reply(axframe) == <<AX25ClientFrame(axframe, c._port, 1)>>
  IN  IF "UNN_DM" \in frame_type THEN
        [c |-> c, queued |-> <<>>]
      ELSE IF "UNN_UI" \in frame_type THEN
        [c |-> c, queued |-> IF poll_final THEN reply(dm_response(frame, TRUE)) ELSE <<>>]
      ELSE IF "UNN_DISC" \in frame_type THEN
        [c |-> c, queued |-> reply(dm_response(frame, poll_final))]
      ELSE IF "UNN_SABME" \in frame_type THEN
        [c |-> [c EXCEPT !._next_sequence = 0, !._last_ack = 0, !._last_recieved = 0,
                         !._state = "CONNECTED"],
         queued |-> reply(ua_response(frame, poll_final))]
      ELSE IF "UNN_SABM" \in frame_type THEN
        [c |-> [c EXCEPT !._next_sequence = 0, !._last_ack = 0, !._last_recieved = 0,
                         !._extended = FALSE, !._srej = FALSE, !._window_size = 4,
                         !._state = "CONNECTED"],
         queued |-> reply(ua_response(frame, poll_final))]
      ELSE IF frame.address_field.source.command_repeat_bit THEN
        [c |-> c, queued |-> reply(dm_response(frame, poll_final))]
      ELSE [c |-> c, queued |-> <<>>]

\* AX25Connection._connected_state_frame_handler: an I frame met with a full
\* window is logged, nothing else
_connected_state_frame_handler(c, frame) == [c |-> c, queued |-> <<>>]

\* AX25Connection._handle_incoming_frames: every frame of _incoming is taken
\* in turn and handled by the handler of the state at that moment
RECURSIVE _handle_incoming_frames(_, _)
_handle_incoming_frames(c, queued) ==
  IF c._incoming = <<>>
    THEN [c |-> c, queued |-> queued]
    ELSE LET frame == Head(c._incoming)
             c1 == [c EXCEPT !._incoming = Tail(@)]
             r == CASE c1._state = "DISCONNECTED" -> _disconnected_state_frame_handler(c1, frame)
                    [] c1._state = "CONNECTED" -> _connected_state_frame_handler(c1, frame)
                    [] OTHER -> [c |-> c1, queued |-> <<>>]
         IN  _handle_incoming_frames(r.c, queued \o r.queued)

\* the queue after queue_for_sending has been called for each frame in turn
RECURSIVE queue_all(_, _)
queue_all(outgoing, frames) ==
  IF frames = <<>> THEN outgoing
  ELSE queue_all(queue_for_sending(outgoing, Head(frames)), Tail(frames))

\* the place of a connection id in the registry, 0 if it is not registered
IndexOf(id) ==
  IF \E i \in 1..Len(connections) : connection_id(connections[i]) = id
    THEN CHOOSE i \in 1..Len(connections) : connection_id(connections[i]) = id
    ELSE 0

\* a sequence without its i-th element (dict.pop)
Without(seq, i) == SubSeq(seq, 1, i - 1) \o SubSeq(seq, i + 1, Len(seq))

\* the ids of the connections of a registry that are not in
\* AWAITING_RELEASE, in its order
RECURSIVE NotReleasing(_)
NotReleasing(registry) ==
  IF registry = <<>> THEN <<>>
  ELSE (IF Head(registry)._state # "AWAITING_RELEASE"
          THEN <<connection_id(Head(registry))>> ELSE <<>>)
       \o NotReleasing(Tail(registry))

\* AX25Controller.__init__: nothing registered, no loop yet
InitController ==
  /\ connections = <<>>
  /\ listeners = <<>>
  /\ ui_callbacks = <<>>
  /\ controller = [_shutdown_requested |-> FALSE, _active |-> TRUE, loop |-> "none"]
  /\ ctl_hist = [op |-> "init", inframe |-> NoFrame, source |-> "None", kiss_port |-> 0,
                 ui_calls |-> <<>>, accepts |-> <<>>, created |-> {},
                 stop_requests |-> <<>>, error |-> "none"]

\* the history of one operation of the controller or of a connection
CtlStep(name, frame, source, kiss_port, calls, accepts, created, stops, error_name) ==
  ctl_hist' = [op |-> name, inframe |-> frame, source |-> source, kiss_port |-> kiss_port,
               ui_calls |-> calls, accepts |-> accepts, created |-> created,
               stop_requests |-> stops, error |-> error_name]

\* the history of an operation that handles no frame
CtlPlainStep(name, stops, error_name) ==
  CtlStep(name, NoFrame, "None", 0, <<>>, <<>>, {}, stops, error_name)

\* AX25Controller.add_listener
add_listener ==
  \E callsign \in ListenerCalls :
    /\ IF \E i \in 1..Len(listeners) : listeners[i].callsign = callsign
         THEN listeners' = listeners /\ CtlPlainStep("add_listener", <<>>, "NameError")
         ELSE listeners' = Append(listeners, AX25Listener(callsign))
              /\ CtlPlainStep("add_listener", <<>>, "none")
    /\ UNCHANGED <<connections, ui_callbacks, controller>>
    /\ UNCHANGED <<connection_vars, listen_vars, codec, timer_vars, client_vars>>

\* AX25Controller.add_ui_callback, for an observer that is not registered yet
add_ui_callback ==
  \E callback \in UICallbacks :
    /\ \A i \in 1..Len(ui_callbacks) : ui_callbacks[i] # callback
    /\ ui_callbacks' = Append(ui_callbacks, callback)
    /\ CtlPlainStep("add_ui_callback", <<>>, "none")
    /\ UNCHANGED <<connections, listeners, controller>>
    /\ UNCHANGED <<connection_vars, listen_vars, codec, timer_vars, client_vars>>

\* AX25Controller.data_recieved for one frame of the given set, arriving on
\* one of the given transports
DataRecievedFrom(frames, clients) ==
  \E axframe \in frames, source \in clients, kiss_port \in KissPorts :
    LET local == call_with_ssid(axframe.address_field.destination)
        remote == call_with_ssid(axframe.address_field.source)
        connection_id_ == get_connection_id(local, remote, AX25Client_id(source), kiss_port)
        poll_final == axframe.control_field.poll_final
        Step(calls, accepts, created) ==
          CtlStep("data_recieved", axframe, source, kiss_port, calls, accepts, created,
                  <<>>, "none")
    IN  /\ IF IndexOf(connection_id_) # 0 THEN
             /\ Len(connections[IndexOf(connection_id_)]._incoming) < MaxIncoming
             /\ connections' =
                  [connections EXCEPT ![IndexOf(connection_id_)] = recieve(@, axframe)]
             /\ client_outgoing' = client_outgoing
             /\ Step(<<>>, <<>>, {})
           ELSE IF FlagAnd(axframe.control_field.frame_type, {"UNN_UI"}) THEN
             /\ poll_final => Len(client_outgoing) < MaxSend
             /\ client_outgoing' =
                  IF poll_final
                    THEN queue_for_sending(client_outgoing,
                           AX25ClientFrame(dm_response(axframe, TRUE), kiss_port, 1))
                    ELSE client_outgoing
             /\ connections' = connections
             /\ Step([i \in 1..Len(ui_callbacks) |->
                        [callback |-> ui_callbacks[i],
                         axframe |-> IF poll_final THEN after_response(axframe) ELSE axframe,
                         source |-> source, kiss_port |-> kiss_port]],
                     <<>>, {})
           ELSE IF \E i \in 1..Len(listeners) : listeners[i].callsign = local THEN
             LET listener == listeners[1]
                 connection == [recieve(SharedConnection(local, remote, source, kiss_port), axframe)
                                  EXCEPT !.start_task = TRUE]
             IN  /\ connections' = Append(connections, connection)
                 /\ client_outgoing' = client_outgoing
                 /\ Step(<<>>,
                         <<[callback |-> listener.incoming_callback,
                            connection |-> connection_id(connection)]>>,
                         {connection_id(connection)})
           ELSE
             /\ connections' = connections
             /\ client_outgoing' = client_outgoing
             /\ Step(<<>>, <<>>, {})
        /\ UNCHANGED <<listeners, ui_callbacks, controller, client_hist>>
        /\ UNCHANGED <<connection_vars, listen_vars, codec, timer_vars>>

\* a frame of any of the studied types arrives
data_recieved == DataRecievedFrom(CtlInFrames, ClientIds)

\* a connection request arrives
sabm_recieved == DataRecievedFrom(CtlSabmFrames, ClientIds)

\* a frame of any of the studied types arrives on either of two transports
client_data_recieved == DataRecievedFrom(CtlInFrames, Clients)

\* the task of AX25Connection.start runs: the connection is active and its
\* handling loop exists
connection_start ==
  \E i \in 1..Len(connections) :
    /\ connections[i].start_task
    /\ connections' = [connections EXCEPT ![i]._active = TRUE, ![i].start_task = FALSE]
    /\ CtlPlainStep("connection_start", <<>>, "none")
    /\ UNCHANGED <<listeners, ui_callbacks, controller>>
    /\ UNCHANGED <<connection_vars, listen_vars, codec, timer_vars, client_vars>>

\* one turn of AX25Connection.handling_loop of a registered connection
\* (_handle_timers does nothing)
ConnectionSweep ==
  \E i \in 1..Len(connections) :
    LET r == _handle_incoming_frames(connections[i], <<>>)
    IN  /\ connections[i]._active /\ ~connections[i].start_task
        /\ connections[i]._incoming # <<>>
        /\ connections' = [connections EXCEPT ![i] = r.c]
        /\ client_outgoing' = queue_all(client_outgoing, r.queued)
        /\ CtlPlainStep("connection_sweep", <<>>, "none")
        /\ UNCHANGED <<listeners, ui_callbacks, controller, client_hist>>
        /\ UNCHANGED <<connection_vars, listen_vars, codec, timer_vars>>

\* the owner of a connection (it was handed to the accept callback) calls
\* AX25Connection.stop
ConnectionStop ==
  \E i \in 1..Len(connections), abort \in BOOLEAN :
    /\ ~connections[i].start_task
    /\ connections' = [connections EXCEPT ![i] = connection_stop(@, abort)]
    /\ CtlPlainStep(IF abort THEN "connection_abort" ELSE "connection_stop",
                    <<connection_id(connections[i])>>, "none")
    /\ UNCHANGED <<listeners, ui_callbacks, controller>>
    /\ UNCHANGED <<connection_vars, listen_vars, codec, timer_vars, client_vars>>

\* AX25Controller.start: the task of handling_loop is created
controller_start ==
  /\ controller.loop = "none"
  /\ controller' = [controller EXCEPT !.loop = "running"]
  /\ CtlPlainStep("start", <<>>, "none")
  /\ UNCHANGED <<connections, listeners, ui_callbacks>>
  /\ UNCHANGED <<connection_vars, listen_vars, codec, timer_vars, client_vars>>

\* AX25Controller.stop, called with one of the given values of abort
ControllerStop(aborts) ==
  \E abort \in aborts :
    /\ IF abort
         THEN /\ connections' = [i \in 1..Len(connections) |-> connection_stop(connections[i], TRUE)]
              /\ controller' = [controller EXCEPT !._active = FALSE]
         ELSE /\ connections' = connections
              /\ controller' = [controller EXCEPT !._shutdown_requested = TRUE]
    /\ CtlPlainStep(IF abort THEN "abort" ELSE "stop", <<>>, "none")
    /\ UNCHANGED <<listeners, ui_callbacks>>
    /\ UNCHANGED <<connection_vars, listen_vars, codec, timer_vars, client_vars>>

\* AX25Controller.stop with either value of abort
controller_stop == ControllerStop(BOOLEAN)

\* AX25Controller.stop(abort=False), asked once
graceful_stop ==
  /\ ~controller._shutdown_requested
  /\ ControllerStop({FALSE})

\* the UA with F set that the peer of a connection in AWAITING_RELEASE sends
\* to answer the release, addressed as ua_response addresses a response
ReleaseAnswers ==
  { AX25Frame(AX25AddressField(AX25Address(p[1][1], p[1][2], TRUE),
                               AX25Address(p[2][1], p[2][2], FALSE), <<>>, 0),
              AX25ControlField(Unn("UNN_UA"), TRUE), PidOf(Unn("UNN_UA")))
    : p \in { q \in RemoteCalls \X ListenerCalls :
                \E i \in 1..Len(connections) :
                  /\ connections[i]._state = "AWAITING_RELEASE"
                  /\ connections[i]._remote = q[1]
                  /\ connections[i]._local = q[2] } }

\* the answer of a peer to the release arrives
release_answered == DataRecievedFrom(ReleaseAnswers, ClientIds)

\* one turn of AX25Controller.handling_loop.  The loop over
\* _connections.values() pops the first inactive connection it meets and the
\* next step of that same iteration raises RuntimeError (dictionary changed
\* size during iteration), which ends the task.  A connection whose start
\* task is still pending is never seen: that task was queued before the loop
\* wakes.
ControllerSweep ==
  LET inactive(c) == ~c._active
      first_inactive == CHOOSE i \in 1..Len(connections) :
                          /\ inactive(connections[i])
                          /\ \A j \in 1..(i - 1) : ~inactive(connections[j])
      to_stop(c) == c._state # "AWAITING_RELEASE"
  IN  /\ controller.loop = "running"
      /\ \A i \in 1..Len(connections) : ~connections[i].start_task
      /\ IF ~controller._active THEN
           /\ controller' = [controller EXCEPT !.loop = "returned"]
           /\ connections' = connections
           /\ CtlPlainStep("sweep", <<>>, "none")
         ELSE IF \E i \in 1..Len(connections) : inactive(connections[i]) THEN
           /\ controller' = [controller EXCEPT !.loop = "RuntimeError"]
           /\ connections' = Without(connections, first_inactive)
           /\ CtlPlainStep("sweep", <<>>, "RuntimeError")
         ELSE IF controller._shutdown_requested THEN
           /\ connections' =
                [i \in 1..Len(connections) |->
                   IF to_stop(connections[i]) THEN connection_stop(connections[i], FALSE)
                   ELSE connections[i]]
           /\ controller' = [controller EXCEPT
                               !.loop = IF Len(connections) = 0 THEN "returned" ELSE @]
           /\ CtlPlainStep("sweep", NotReleasing(connections), "none")
         ELSE
           /\ UNCHANGED <<connections, controller>>
           /\ CtlPlainStep("sweep", <<>>, "none")
      /\ UNCHANGED <<listeners, ui_callbacks>>
      /\ UNCHANGED <<connection_vars, listen_vars, codec, timer_vars, client_vars>>

\* frames are routed while listeners and UI observers are registered
NextRouting ==
  \/ add_listener
  \/ add_ui_callback
  \/ data_recieved

\* frames are routed while they arrive on two transports
NextClients ==
  \/ add_listener
  \/ client_data_recieved

\* connections are opened and used, the controller is asked to stop
\* gracefully, and every peer answers the release
NextGraceful ==
  \/ add_listener
  \/ sabm_recieved
  \/ connection_start
  \/ ConnectionSweep
  \/ controller_start
  \/ graceful_stop
  \/ release_answered
  \/ ControllerSweep

\* connections are opened, used and stopped while the controller runs and
\* is shut down
NextShutdown ==
  \/ add_listener
  \/ sabm_recieved
  \/ connection_start
  \/ ConnectionSweep
  \/ ConnectionStop
  \/ controller_start
  \/ controller_stop
  \/ ControllerSweep

\* ------------------------------------------------------------------------
\* Initial state and steps
\* ------------------------------------------------------------------------

\* AX25Connection(local_address=...) after __post_init__: the fields hold
\* their defaults, the timers are built STOPPED, _reset_state zeroes the
\* sequence variables and installs an empty queue
InitConnection ==
  /\ state = "DISCONNECTED"
  /\ remote_address = None
  /\ modulo = "UNSPECIFIED"
  /\ outgoing_frames = <<>>
  /\ ui_handlers = <<>>
  /\ peer_busy = FALSE
  /\ sequence_number = 0
  /\ receive_sequence_number = 0
  /\ ack_sequence_number = 0
  /\ outstanding_i_frame_timer = "STOPPED"
  /\ keepalive_timer = "STOPPED"
  /\ op = "init"
  /\ inframe = NoFrame
  /\ pre = Self
  /\ ui_calls = <<>>
  /\ error = "none"

\* KISSTCPClient before listen_loop has read anything: no callback task yet
InitListen ==
  /\ tasks = <<>>
  /\ listen_hist = [task |-> 0, began |-> FALSE, behind |-> FALSE]
  /\ transport = [loop |-> "running", reads |-> 0, sent |-> 0, pending |-> <<>>,
                  received |-> <<>>, logged |-> 0]

\* every object right after its construction
Init ==
  /\ InitConnection
  /\ InitTimer
  /\ InitClient
  /\ InitController
  /\ InitListen
  /\ codec = [op |-> "init"]

\* the history of a step that handles no frame
NoFrameStep(name) ==
  /\ op' = name
  /\ inframe' = NoFrame
  /\ pre' = Self
  /\ ui_calls' = <<>>
  /\ UNCHANGED outside_connection

\* one call of handle_ax25_frame, run to its return or to its exception
HandleFrameFrom(frames) ==
  \E frame \in frames :
    LET c == handle_ax25_frame(Self, frame)
    IN  /\ Len(c.outgoing_frames) <= MaxQueue
        /\ state' = c.state
        /\ remote_address' = c.remote_address
        /\ modulo' = c.modulo
        /\ outgoing_frames' = c.outgoing_frames
        /\ ui_handlers' = c.ui_handlers
        /\ peer_busy' = c.peer_busy
        /\ sequence_number' = c.sequence_number
        /\ receive_sequence_number' = c.receive_sequence_number
        /\ ack_sequence_number' = c.ack_sequence_number
        /\ outstanding_i_frame_timer' = c.outstanding_i_frame_timer
        /\ keepalive_timer' = c.keepalive_timer
        /\ op' = "frame"
        /\ inframe' = frame
        /\ pre' = Self
        /\ ui_calls' = c.ui_calls
        /\ error' = c.error
        /\ UNCHANGED outside_connection

\* a frame of any type arrives
HandleFrame == HandleFrameFrom(InFrames)

\* a UI frame (or the SABM that opens the link) arrives
HandleUIFrame == HandleFrameFrom(UIInFrames)

\* Timer._run / Timer._on_expire of T3: the sleep ends, the timer is EXPIRED
\* and _on_keepalive_timeout only logs
KeepaliveExpire ==
  /\ keepalive_timer = "RUNNING"
  /\ keepalive_timer' = "EXPIRED"
  /\ NoFrameStep("expire")
  /\ error' = "none"
  /\ UNCHANGED <<state, remote_address, modulo, outgoing_frames, ui_handlers, peer_busy,
                 sequence_number, receive_sequence_number, ack_sequence_number,
                 outstanding_i_frame_timer>>

\* the consumer of the queue takes the oldest frame (outgoing_frames.get_nowait())
GetFrame ==
  /\ outgoing_frames # <<>>
  /\ outgoing_frames' = Tail(outgoing_frames)
  /\ NoFrameStep("get")
  /\ error' = "none"
  /\ UNCHANGED <<state, remote_address, modulo, ui_handlers, peer_busy,
                 sequence_number, receive_sequence_number, ack_sequence_number,
                 outstanding_i_frame_timer, keepalive_timer>>

\* AX25Connection.add_ui_handler
add_ui_handler ==
  \E handler \in Handlers :
    /\ Len(ui_handlers) < MaxHandlers
    /\ ui_handlers' = Append(ui_handlers, handler)
    /\ NoFrameStep("add_ui_handler")
    /\ error' = "none"
    /\ UNCHANGED <<state, remote_address, modulo, outgoing_frames, peer_busy,
                   sequence_number, receive_sequence_number, ack_sequence_number,
                   outstanding_i_frame_timer, keepalive_timer>>

\* AX25Connection.remove_ui_handler: list.remove raises ValueError for a
\* handler that is not registered
remove_ui_handler ==
  \E handler \in Handlers :
    /\ IF \E i \in 1..Len(ui_handlers) : ui_handlers[i] = handler
         THEN ui_handlers' = RemoveFirst(ui_handlers, handler) /\ error' = "none"
         ELSE ui_handlers' = ui_handlers /\ error' = "ValueError"
    /\ NoFrameStep("remove_ui_handler")
    /\ UNCHANGED <<state, remote_address, modulo, outgoing_frames, peer_busy,
                   sequence_number, receive_sequence_number, ack_sequence_number,
                   outstanding_i_frame_timer, keepalive_timer>>

\* the owner of the connection assigns the public field `state` when it
\* requests a connection or a release (the class has no method for either)
AssignState ==
  \E s \in {"AWAITING_CONNECTION", "AWAITING_RELEASE"} :
    /\ state # s
    /\ state' = s
    /\ NoFrameStep("assign")
    /\ error' = "none"
    /\ UNCHANGED <<remote_address, modulo, outgoing_frames, ui_handlers, peer_busy,
                   sequence_number, receive_sequence_number, ack_sequence_number,
                   outstanding_i_frame_timer, keepalive_timer>>

Next ==
  \/ HandleFrame
  \/ KeepaliveExpire
  \/ GetFrame
  \/ AssignState

Spec == Init /\ [][Next]_vars

\* the study of UI delivery: handlers are registered and removed while UI
\* frames arrive in every state
NextUI ==
  \/ HandleUIFrame
  \/ add_ui_handler
  \/ remove_ui_handler
  \/ GetFrame
  \/ AssignState

SpecUI == Init /\ [][NextUI]_vars

\* ------------------------------------------------------------------------
\* Per-frame callback tasks (mpmm_kiss/kiss_client.py, listen_loop)
\* ------------------------------------------------------------------------

\* the connection takes the field values of c
StoreSelf(c) ==
  /\ state' = c.state
  /\ remote_address' = c.remote_address
  /\ modulo' = c.modulo
  /\ outgoing_frames' = c.outgoing_frames
  /\ ui_handlers' = c.ui_handlers
  /\ peer_busy' = c.peer_busy
  /\ sequence_number' = c.sequence_number
  /\ receive_sequence_number' = c.receive_sequence_number
  /\ ack_sequence_number' = c.ack_sequence_number
  /\ outstanding_i_frame_timer' = c.outstanding_i_frame_timer
  /\ keepalive_timer' = c.keepalive_timer
  /\ error' = c.error

\* a task the loop has created and the event loop has not run yet
NewTask(frame) == [frame |-> frame, pc |-> "created", via |-> "None", at |-> 0]

\* the statements that follow `await self.handle_ui_frame(frame)` in the
\* handler of the state `via` that handle_ax25_frame dispatched to: a DM for
\* a poll, except in connected_frame_handler
after_handle_ui_frame(c, via, frame) ==
  IF via \in {"DISCONNECTED", "AWAITING_CONNECTION", "AWAITING_RELEASE"}
       /\ frame.control_field.poll_final
    THEN send_ax25_frame(c, dm_response(frame, TRUE))
    ELSE c

\* the history of a step of task k: whether a task created after it had
\* already begun when the step ran
TaskStep(k, began) ==
  /\ op' = "task"
  /\ inframe' = tasks[k].frame
  /\ pre' = Self
  /\ listen_hist' = [task |-> k, began |-> began,
                     behind |-> \E j \in (k + 1)..Len(tasks) : tasks[j].pc # "created"]
  /\ UNCHANGED <<timer_vars, client_vars, controller_vars, codec, transport>>

\* the loop of handle_ui_frame from the handler at place `first`, inside the
\* task k that handle_ax25_frame dispatched by the state `via`.  Each handler
\* is a coroutine of the caller and either returns at once or suspends; the
\* task runs until a handler suspends (place `stop`) or until the state
\* handler returns.
RunHandlers(k, via, first, began) ==
  LET frame == tasks[k].frame
      n == Len(ui_handlers)
  IN  \E stop \in first..(n + 1) :
        LET last == IF stop <= n THEN stop ELSE n
        IN  /\ ui_calls' = [i \in 1..(last - first + 1) |->
                              [handler |-> ui_handlers[first + i - 1], frame |-> frame]]
            /\ IF stop <= n
                 THEN /\ tasks' = [tasks EXCEPT ![k] =
                                     [frame |-> frame, pc |-> "suspended", via |-> via, at |-> stop]]
                      /\ StoreSelf(Self)
                 ELSE LET c == after_handle_ui_frame(Self, via, frame)
                      IN  /\ Len(c.outgoing_frames) <= MaxQueue
                          /\ tasks' = Without(tasks, k)
                          /\ StoreSelf(c)
            /\ TaskStep(k, began)

\* KISSTCPClient.listen_loop: one read decodes one or two frames, and a task
\* is created for the callback of each, in the order of the frames
listen_loop ==
  \E batch \in {<<f>> : f \in UIInFrames} \cup {<<f, g>> : f, g \in UIInFrames} :
    /\ Len(tasks) + Len(batch) <= MaxTasks
    /\ tasks' = tasks \o [i \in 1..Len(batch) |-> NewTask(batch[i])]
    /\ op' = "listen"
    /\ inframe' = NoFrame
    /\ pre' = Self
    /\ ui_calls' = <<>>
    /\ listen_hist' = [task |-> 0, began |-> FALSE, behind |-> FALSE]
    /\ StoreSelf(Self)
    /\ UNCHANGED <<timer_vars, client_vars, controller_vars, codec, transport>>

\* the event loop runs the oldest task that has not begun (tasks become
\* ready in the order they were created): handle_ax25_frame reads the state
\* and calls its handler, which runs to its return or to the first handler
\* of handle_ui_frame that suspends
TaskBegin ==
  \E k \in 1..Len(tasks) :
    /\ tasks[k].pc = "created"
    /\ \A j \in 1..(k - 1) : tasks[j].pc # "created"
    /\ IF tasks[k].frame.control_field.frame_type = Unn("UNN_UI")
            /\ state # "TIMER_RECOVERY"
         THEN RunHandlers(k, state, 1, TRUE)
         ELSE LET c == handle_ax25_frame(Self, tasks[k].frame)
              IN  /\ Len(c.outgoing_frames) <= MaxQueue
                  /\ tasks' = Without(tasks, k)
                  /\ ui_calls' = c.ui_calls
                  /\ StoreSelf(c)
                  /\ TaskStep(k, TRUE)

\* the handler a task is suspended in returns: the task goes on with the
\* next handler of the list
TaskResume ==
  \E k \in 1..Len(tasks) :
    /\ tasks[k].pc = "suspended"
    /\ RunHandlers(k, tasks[k].via, tasks[k].at + 1, FALSE)

\* the study of the per-frame tasks
NextListen ==
  \/ listen_loop
  \/ TaskBegin
  \/ TaskResume
  \/ add_ui_handler
  \/ GetFrame
  \/ AssignState

SpecListen == Init /\ [][NextListen]_vars

\* ------------------------------------------------------------------------
\* The outstanding-I-frame timer T1 of the connection
\* ------------------------------------------------------------------------

\* Timer.start of T1.  No method of the connection starts T1; the owner of
\* the connection does, on the Timer that __post_init__ built.
OutstandingIFrameStart ==
  LET started == Timer_start(outstanding_i_frame_timer)
  IN  /\ outstanding_i_frame_timer' = started.state
      /\ error' = IF started.raised THEN "TimerError" ELSE "none"
      /\ NoFrameStep("t1_start")
      /\ UNCHANGED <<state, remote_address, modulo, outgoing_frames, ui_handlers, peer_busy,
                     sequence_number, receive_sequence_number, ack_sequence_number,
                     keepalive_timer>>

\* Timer._run / Timer._on_expire of T1: the sleep ends, the timer is EXPIRED
\* and _on_outstanding_i_frame_timeout only logs
OutstandingIFrameExpire ==
  /\ outstanding_i_frame_timer = "RUNNING"
  /\ outstanding_i_frame_timer' = "EXPIRED"
  /\ NoFrameStep("t1_expire")
  /\ error' = "none"
  /\ UNCHANGED <<state, remote_address, modulo, outgoing_frames, ui_handlers, peer_busy,
                 sequence_number, receive_sequence_number, ack_sequence_number,
                 keepalive_timer>>

\* the study of T1: frames of every type arrive while T1 runs and expires
NextT1 ==
  \/ HandleFrame
  \/ OutstandingIFrameStart
  \/ OutstandingIFrameExpire
  \/ GetFrame

SpecT1 == Init /\ [][NextT1]_vars

\* ------------------------------------------------------------------------
\* Bytes
\* ------------------------------------------------------------------------

\* a & b on non-negative integers
RECURSIVE BitAnd(_, _)
BitAnd(a, b) ==
  IF a = 0 \/ b = 0 THEN 0
  ELSE (a % 2) * (b % 2) + 2 * BitAnd(a \div 2, b \div 2)

\* a | b on non-negative integers
RECURSIVE BitOr(_, _)
BitOr(a, b) ==
  IF a = 0 THEN b
  ELSE IF b = 0 THEN a
  ELSE (IF a % 2 = 1 \/ b % 2 = 1 THEN 1 ELSE 0) + 2 * BitOr(a \div 2, b \div 2)

\* the byte strings of at most n bytes over an alphabet
BytesUpTo(alphabet, n) == UNION {[1..k -> alphabet] : k \in 0..n}

\* ------------------------------------------------------------------------
\* KISS frames (kiss/frame.py)
\* ------------------------------------------------------------------------

\* KISSCode
FEND == 192
FESC == 219
TFEND == 220
TFESC == 221

\* KISSCommand.RETURN
RETURN == 255

\* KISSCommand: the values of its members
KISSCommand == (0..6) \cup {RETURN}

\* KISSFrame
KISSFrame(data, command, port) == [data |-> data, command |-> command, port |-> port]

\* a slip in _escape_byte: FEND is not escaped
_escape_byte_fesc_only(byte) ==
  IF byte = FESC THEN <<FESC, TFESC>> ELSE <<byte>>

\* KISSFrame._escape_byte
_escape_byte(byte) ==
  IF byte = FEND THEN <<FESC, TFEND>>
  ELSE IF byte = FESC THEN <<FESC, TFESC>>
  ELSE <<byte>>

\* KISSFrame._unescape_frame, from the point where the loop variable
\* `escaped` has the given value
RECURSIVE _unescape_frame(_, _)
_unescape_frame(frame, escaped) ==
  IF frame = <<>> THEN <<>>
  ELSE LET byte == Head(frame)
       IN  IF byte = FESC THEN _unescape_frame(Tail(frame), TRUE)
           ELSE IF escaped
             THEN <<IF byte = TFEND THEN FEND ELSE IF byte = TFESC THEN FESC ELSE byte>>
                    \o _unescape_frame(Tail(frame), FALSE)
             ELSE <<byte>> \o _unescape_frame(Tail(frame), FALSE)

\* KISSFrame.encode
KISSFrame_encode(K) ==
  LET type_indicator == BitOr(K.command, K.port * 16)
      escaped_data[i \in 0..Len(K.data)] ==
        IF i = 0 THEN <<>> ELSE escaped_data[i - 1] \o _escape_byte(K.data[i])
  IN  <<FEND>> \o _escape_byte(type_indicator) \o escaped_data[Len(K.data)] \o <<FEND>>

\* bytes.split(sep) for a separator of one byte: the runs between the
\* separators, the empty ones and those at both ends included
RECURSIVE split(_, _)
split(data, sep) ==
  IF \A i \in 1..Len(data) : data[i] # sep THEN <<data>>
  ELSE LET i == CHOOSE k \in 1..Len(data) :
                  data[k] = sep /\ \A j \in 1..(k - 1) : data[j] # sep
       IN  <<SubSeq(data, 1, i - 1)>> \o split(SubSeq(data, i + 1, Len(data)), sep)

\* KISSFrame.decode: the list of frames it returns, or the exception it
\* raises (IndexError for unescaped_frame[0] of an empty frame, ValueError
\* for KISSCommand(n) of an undefined n), in which case nothing is returned
KISSFrame_decode(data) ==
  LET runs == split(data, FEND)
      decoded_frames[i \in 0..Len(runs)] ==
        IF i = 0 THEN [frames |-> <<>>, error |-> "none"]
        ELSE LET sofar == decoded_frames[i - 1]
                 unescaped_frame == _unescape_frame(runs[i], FALSE)
             IN  IF sofar.error # "none" \/ runs[i] = <<>> THEN sofar
                 ELSE IF unescaped_frame = <<>>
                   THEN [frames |-> <<>>, error |-> "IndexError"]
                 ELSE IF unescaped_frame[1] = RETURN
                   THEN [sofar EXCEPT !.frames = Append(@, KISSFrame(<<>>, RETURN, 0))]
                 ELSE IF BitAnd(unescaped_frame[1], 15) \notin KISSCommand
                   THEN [frames |-> <<>>, error |-> "ValueError"]
                 ELSE [sofar EXCEPT !.frames =
                         Append(@, KISSFrame(Tail(unescaped_frame),
                                             BitAnd(unescaped_frame[1], 15),
                                             BitAnd(unescaped_frame[1], 240) \div 16))]
  IN  decoded_frames[Len(runs)]

\* the bytes of the data fields that are encoded: the four KISS codes, a
\* letter and 0xFF
KissData == {FEND, FESC, TFEND, TFESC, 84, 255}

\* the bytes of the streams that are decoded: the four KISS codes, the type
\* byte of a data frame on port 0, a letter, and 0x0F, whose low nibble is no
\* command
KissStream == {FEND, FESC, TFEND, TFESC, 0, 84, 15}

\* a frame is built, encoded, and the bytes are decoded (the codecs keep no
\* state between calls: a behaviour of their study is one call)
kiss_encode_decode ==
  /\ codec.op = "init"
  /\ \E port \in 0..15, command \in KISSCommand, data \in BytesUpTo(KissData, MaxData) :
    LET encoded == KISSFrame_encode(KISSFrame(data, command, port))
    IN  /\ codec' = [op |-> "kiss_encode_decode",
                     frame |-> KISSFrame(data, command, port),
                     encoded |-> encoded,
                     decoded |-> KISSFrame_decode(encoded)]
        /\ UNCHANGED <<connection_vars, timer_vars, client_vars, controller_vars, listen_vars>>

\* a byte stream is decoded
kiss_decode ==
  /\ codec.op = "init"
  /\ \E stream \in BytesUpTo(KissStream, MaxStream) :
    /\ codec' = [op |-> "kiss_decode", stream |-> stream,
                 decoded |-> KISSFrame_decode(stream)]
    /\ UNCHANGED <<connection_vars, timer_vars, client_vars, controller_vars, listen_vars>>

\* the study of the KISS codec
NextKiss ==
  \/ kiss_encode_decode
  \/ kiss_decode

SpecKiss == Init /\ [][NextKiss]_vars

\* ------------------------------------------------------------------------
\* The AX.25 codec (ax25/frame.py).  A callsign and an SSID are Python
\* strings: here sequences of character codes.  A bytes value is a sequence
\* of numbers in 0..255; a call that raises returns its error instead.
\* ------------------------------------------------------------------------

\* AX25PID: the value of each member
AX25PID ==
  [NONE |-> 0, ISO_8208 |-> 1, TCP_COMPRESSED |-> 6, TCP_UNCOMPRESSED |-> 7,
   FRAGMENT |-> 8, TEXNET |-> 195, LQP |-> 196, APPLETALK |-> 202,
   APPLETALK_ARP |-> 203, ARPA_IP |-> 204, ARPA_ADDR |-> 205, FLEXNET |-> 206,
   NETROM |-> 207, NO_LAYER_3 |-> 240, ESCAPE |-> 255]

\* a slip in AX25Address.decode: the padding spaces are kept in the callsign
AX25Address_decode_unstripped(address_bytes) ==
  LET address == [i \in 1..Len(address_bytes) |-> address_bytes[i] \div 2]
      last == address_bytes[7]
  IN  [callsign |-> SubSeq(address, 1, 6),
       ssid |-> IF BitAnd(last, 30) \div 2 < 10 THEN <<48 + BitAnd(last, 30) \div 2>>
                ELSE <<49, 38 + BitAnd(last, 30) \div 2>>,
       reserved_bit_5 |-> BitAnd(last, 32) # 0,
       reserved_bit_6 |-> BitAnd(last, 64) # 0,
       command_repeat_bit |-> BitAnd(last, 128) # 0]

\* AX25Address.decode of the 7 bytes of an address: every byte shifted right
\* by one, the first six decoded as text and stripped of white space at both
\* ends, the SSID written as a decimal numeral
AX25Address_decode(address_bytes) ==
  LET address == [i \in 1..Len(address_bytes) |-> address_bytes[i] \div 2]
      text == SubSeq(address, 1, 6)
      Whitespace == {9, 10, 11, 12, 13, 28, 29, 30, 31, 32}
      kept == {i \in 1..Len(text) : text[i] \notin Whitespace}
      first == CHOOSE i \in kept : \A j \in kept : i <= j
      final == CHOOSE i \in kept : \A j \in kept : j <= i
      last == address_bytes[7]
      number == BitAnd(last, 30) \div 2
  IN  [callsign |-> IF kept = {} THEN <<>> ELSE SubSeq(text, first, final),
       ssid |-> IF number < 10 THEN <<48 + number>>
                ELSE <<48 + number \div 10, 48 + (number % 10)>>,
       reserved_bit_5 |-> BitAnd(last, 32) # 0,
       reserved_bit_6 |-> BitAnd(last, 64) # 0,
       command_repeat_bit |-> BitAnd(last, 128) # 0]

\* AX25Address.encode: the callsign in UTF-8, padded with spaces to six
\* bytes, every byte shifted left by one, then the byte of the SSID and the
\* three bits; bytes() raises ValueError on a value above 255
AX25Address_encode(self) ==
  LET utf8(c) == IF c < 128 THEN <<c>> ELSE <<192 + (c \div 64), 128 + (c % 64)>>
      text[i \in 0..Len(self.callsign)] ==
        IF i = 0 THEN <<>> ELSE text[i - 1] \o utf8(self.callsign[i])
      call == text[Len(self.callsign)]
      padded == call \o [i \in 1..(6 - Len(call)) |-> 32]
      int[i \in 0..Len(self.ssid)] ==
        IF i = 0 THEN 0 ELSE 10 * int[i - 1] + (self.ssid[i] - 48)
      ssid_bits == int[Len(self.ssid)] * 2
      with5 == IF self.reserved_bit_5 THEN BitOr(ssid_bits, 32) ELSE ssid_bits
      with6 == IF self.reserved_bit_6 THEN BitOr(with5, 64) ELSE with5
      finalbyte == IF self.command_repeat_bit THEN BitOr(with6, 128) ELSE with6
      address_bytes == [i \in 1..Len(padded) |-> padded[i] * 2] \o <<finalbyte>>
  IN  IF \E i \in 1..Len(address_bytes) : address_bytes[i] > 255
      THEN [bytes |-> <<>>, error |-> "ValueError"]
      ELSE [bytes |-> address_bytes, error |-> "none"]

\* AX25AddressField.decode: destination, source, then the rest in chunks of
\* seven bytes (the fields decoded here are whole: a shorter last chunk
\* raises IndexError in AX25Address.decode)
AX25AddressField_decode(address_bytes) ==
  AX25AddressField(
    AX25Address_decode(SubSeq(address_bytes, 8, 14)),
    AX25Address_decode(SubSeq(address_bytes, 1, 7)),
    [i \in 1..((Len(address_bytes) - 14) \div 7) |->
       AX25Address_decode(SubSeq(address_bytes, 7 * i + 8, 7 * i + 14))],
    Len(address_bytes))

\* AX25AddressField.encode: destination, source and the path in order, bit 0
\* of the last byte set
AX25AddressField_encode(self) ==
  LET parts == <<self.destination, self.source>> \o self.path
      append(before, address) ==
        IF before.error # "none" THEN before
        ELSE IF address.error # "none" THEN address
        ELSE [bytes |-> before.bytes \o address.bytes, error |-> "none"]
      last_set(all) ==
        IF all.error # "none" THEN all
        ELSE [all EXCEPT !.bytes[Len(all.bytes)] = BitOr(@, 1)]
      field_bytes[i \in 0..Len(parts)] ==
        IF i = 0 THEN [bytes |-> <<>>, error |-> "none"]
        ELSE append(field_bytes[i - 1], AX25Address_encode(parts[i]))
  IN  last_set(field_bytes[Len(parts)])

\* a slip in decode_iframe_control: N(S) and N(R) read from each other's bits
decode_iframe_control_swapped(field_bytes) ==
  [frame_type |-> I_FRAME,
   sequence |-> BitAnd(field_bytes[1], 224) \div 32,
   receive |-> BitAnd(field_bytes[1], 14) \div 2]

\* AX25ControlField.decode_iframe_control
decode_iframe_control(field_bytes) ==
  [frame_type |-> I_FRAME,
   sequence |-> BitAnd(field_bytes[1], 14) \div 2,
   receive |-> BitAnd(field_bytes[1], 224) \div 32]

\* AX25ControlField.decode of a modulo 8 control byte; None is -1 in
\* sequence and receive, and a U-frame byte that matches no case keeps
\* U_FRAME alone
AX25ControlField_decode(field_bytes) ==
  LET byte == field_bytes[1]
      low == BitAnd(byte, 3)
      sup == BitAnd(byte, 12)
      unn == BitAnd(byte, 236)
      frame_type ==
        IF low = 0 \/ low = 2 THEN decode_iframe_control(field_bytes).frame_type
        ELSE IF low = 1
        THEN S_FRAME \cup (CASE sup = 0 -> {"SUP_RR"} [] sup = 4 -> {"SUP_RNR"}
                             [] sup = 8 -> {"SUP_REJ"} [] OTHER -> {"SUP_SREJ"})
        ELSE U_FRAME \cup (CASE unn = 108 -> {"UNN_SABME"} [] unn = 44 -> {"UNN_SABM"}
                             [] unn = 64 -> {"UNN_DISC"} [] unn = 12 -> {"UNN_DM"}
                             [] unn = 96 -> {"UNN_UA"} [] unn = 132 -> {"UNN_FRMR"}
                             [] unn = 0 -> {"UNN_UI"} [] unn = 172 -> {"UNN_XID"}
                             [] unn = 224 -> {"UNN_TEST"} [] OTHER -> {})
  IN  [frame_type |-> frame_type,
       poll_final |-> BitAnd(byte, 16) # 0,
       length |-> 1,
       sequence |-> IF low = 0 \/ low = 2
                    THEN decode_iframe_control(field_bytes).sequence ELSE -1,
       receive |-> IF low = 0 \/ low = 2
                   THEN decode_iframe_control(field_bytes).receive
                   ELSE IF low = 1 THEN BitAnd(byte, 224) \div 32 ELSE -1]

\* AX25ControlField.encode for modulo 8: encode_iframe, encode_uframe or
\* encode_sframe by the I/S/U flag (nothing when no single one is set)
AX25ControlField_encode(self) ==
  LET pf == IF self.poll_final THEN 16 ELSE 0
      kind == self.frame_type \cap (I_FRAME \cup S_FRAME \cup U_FRAME)
      sup == self.frame_type \cap SupTypes
      unn == self.frame_type \cap UnnTypes
  IN  IF kind = I_FRAME THEN <<self.sequence * 2 + self.receive * 32 + pf>>
      ELSE IF kind = U_FRAME
      THEN <<3 + pf + (CASE unn = {"UNN_SABME"} -> 108 [] unn = {"UNN_SABM"} -> 44
                         [] unn = {"UNN_DISC"} -> 64 [] unn = {"UNN_DM"} -> 12
                         [] unn = {"UNN_UA"} -> 96 [] unn = {"UNN_FRMR"} -> 132
                         [] unn = {"UNN_XID"} -> 172 [] unn = {"UNN_TEST"} -> 224
                         [] OTHER -> 0)>>
      ELSE IF kind = S_FRAME
      THEN <<1 + (CASE sup = {"SUP_RNR"} -> 4 [] sup = {"SUP_REJ"} -> 8
                    [] sup = {"SUP_SREJ"} -> 12 [] OTHER -> 0)
               + pf + self.receive * 32>>
      ELSE <<>>

\* AX25Frame.decode_address_field: the bytes up to and including the first
\* one with bit 0 set (all of them when there is none)
decode_address_field(frame) ==
  LET ends == {i \in 1..Len(frame) : frame[i] % 2 = 1}
      stop == IF ends = {} THEN Len(frame) ELSE CHOOSE i \in ends : \A j \in ends : i <= j
  IN  AX25AddressField_decode(SubSeq(frame, 1, stop))

\* AX25Frame.decode of well-formed frame data: address field, control
\* field, the PID byte when the frame is an I-frame or a UI frame, and the
\* rest as the information (bytes, possibly empty: never None)
AX25Frame_decode(frame_data) ==
  LET rest(addr_field, control_field, offset, has_pid) ==
        [address_field |-> addr_field,
         control_field |-> control_field,
         pid |-> IF has_pid
                 THEN CHOOSE name \in DOMAIN AX25PID : AX25PID[name] = frame_data[offset + 1]
                 ELSE "None",
         information |-> <<SubSeq(frame_data, offset + (IF has_pid THEN 2 ELSE 1),
                                  Len(frame_data))>>]
      after_control(addr_field, control_field) ==
        rest(addr_field, control_field, addr_field.length + control_field.length,
             FlagAnd(control_field.frame_type, I_FRAME \cup {"UNN_UI"}))
      after_address(addr_field) ==
        after_control(addr_field,
                      AX25ControlField_decode(SubSeq(frame_data, addr_field.length + 1,
                                                     addr_field.length + 1)))
  IN  after_address(decode_address_field(frame_data))

\* a slip in AX25Frame.encode: the information is left out
AX25Frame_encode_without_information(self) ==
  LET frame_data(address) ==
        IF address.error # "none" THEN address
        ELSE [bytes |-> address.bytes \o AX25ControlField_encode(self.control_field)
                          \o (IF self.pid # "None" THEN <<AX25PID[self.pid]>> ELSE <<>>),
              error |-> "none"]
  IN  frame_data(AX25AddressField_encode(self.address_field))

\* AX25Frame.encode: `if self.pid` is true of every AX25PID member (a plain
\* Enum, AX25PID.NONE included) and false of None only; `if
\* self.information` is false of None and of b''
AX25Frame_encode(self) ==
  LET frame_data(address) ==
        IF address.error # "none" THEN address
        ELSE [bytes |-> address.bytes \o AX25ControlField_encode(self.control_field)
                          \o (IF self.pid # "None" THEN <<AX25PID[self.pid]>> ELSE <<>>)
                          \o (IF self.information # <<>> THEN self.information[1] ELSE <<>>),
              error |-> "none"]
  IN  frame_data(AX25AddressField_encode(self.address_field))

\* the characters callsigns are drawn from: "A" and "9"
CallChars == {65, 57}

\* two stations of the frames under study: WB7GR-9 with the command/repeat
\* bit set and reserved bit 5 clear, and TQ0YVW
Stations ==
  <<[AX25Address(<<87, 66, 55, 71, 82>>, <<57>>, TRUE) EXCEPT !.reserved_bit_5 = FALSE],
    AX25Address(<<84, 81, 48, 89, 86, 87>>, <<48>>, FALSE)>>

\* the modulo 8 control fields: every I-frame, S-frame and U-frame variant,
\* with None (-1) where the frame type carries no N(S) or N(R)
ControlFields ==
  {[AX25ControlField(I_FRAME, pf) EXCEPT !.sequence = s, !.receive = r] :
     pf \in BOOLEAN, s \in 0..(SequenceModulus - 1), r \in 0..(SequenceModulus - 1)}
  \cup {[AX25ControlField(Sup(t), pf) EXCEPT !.sequence = -1, !.receive = r] :
          pf \in BOOLEAN, t \in SupTypes, r \in 0..(SequenceModulus - 1)}
  \cup {[AX25ControlField(Unn(u), pf) EXCEPT !.sequence = -1, !.receive = -1] :
          pf \in BOOLEAN, u \in UnnTypes}

\* the beacon of test_entire_frame_decode_encode
FRAME_DATA ==
  <<168, 162, 96, 178, 172, 174, 96, 174, 132, 110, 142, 164, 64, 242, 156, 110,
    148, 148, 178, 64, 240, 174, 96, 170, 160, 166, 64, 254, 174, 146, 136, 138,
    100, 64, 225, 3, 240, 96, 112, 75, 40, 110, 73, 105, 107, 47, 96, 34, 72, 49,
    125, 76, 105, 115, 116, 101, 110, 105, 110, 103, 32, 111, 110, 32, 52, 52, 57,
    46, 51, 48, 48, 32, 45, 32, 119, 98, 55, 103, 114, 64, 97, 114, 114, 108, 46,
    110, 101, 116, 95, 37, 13>>

\* an address is built and encoded, and the bytes, if any, are decoded (a
\* result that exists only when the call returned is a tuple of one)
address_encode_decode ==
  /\ codec.op = "init"
  /\ \E callsign \in (BytesUpTo(CallChars, MaxCallsign) \ {<<>>}) \cup {<<201>>, <<65, 201>>},
        ssid \in {IF n < 10 THEN <<48 + n>> ELSE <<48 + n \div 10, 48 + (n % 10)>> :
                    n \in 0..MaxSsid},
        rb5 \in BOOLEAN, rb6 \in BOOLEAN, crb \in BOOLEAN :
    \E address \in {[AX25Address(callsign, ssid, crb)
                        EXCEPT !.reserved_bit_5 = rb5, !.reserved_bit_6 = rb6]} :
      \E encoded \in {AX25Address_encode(address)} :
        /\ codec' = [op |-> "address_encode_decode",
                     address |-> address,
                     encoded |-> encoded,
                     decoded |-> IF encoded.error = "none"
                                 THEN <<AX25Address_decode(encoded.bytes)>> ELSE <<>>]
        /\ UNCHANGED <<connection_vars, timer_vars, client_vars, controller_vars, listen_vars>>

\* an address field is built and encoded, the bytes are decoded as a
\* received field, and the response field of the received one is made
address_field_encode_decode ==
  /\ codec.op = "init"
  /\ \E source \in {Stations[1], Stations[2]}, destination \in {Stations[1], Stations[2]},
        path \in BytesUpTo({Stations[1], Stations[2]}, MaxPath) :
    \E encoded \in {AX25AddressField_encode(AX25AddressField(source, destination, path, 0))} :
      \E decoded \in {AX25AddressField_decode(encoded.bytes)} :
        /\ codec' = [op |-> "address_field_encode_decode",
                     field |-> AX25AddressField(source, destination, path, 0),
                     encoded |-> encoded,
                     decoded |-> decoded,
                     response |-> get_response_field(decoded)]
        /\ UNCHANGED <<connection_vars, timer_vars, client_vars, controller_vars, listen_vars>>

\* a control field is encoded, the byte is decoded, and the result is
\* encoded again
control_field_encode_decode ==
  /\ codec.op = "init"
  /\ \E field \in ControlFields :
    \E encoded \in {AX25ControlField_encode(field)} :
      \E decoded \in {AX25ControlField_decode(encoded)} :
        /\ codec' = [op |-> "control_field_encode_decode",
                     field |-> field,
                     encoded |-> encoded,
                     decoded |-> decoded,
                     reencoded |-> AX25ControlField_encode(decoded)]
        /\ UNCHANGED <<connection_vars, timer_vars, client_vars, controller_vars, listen_vars>>

\* a frame is built, encoded and decoded: a PID on I-frames and UI frames
\* only, information bytes on the frames that carry a payload, and on every
\* frame either no information (None) or an empty one (b'')
frame_encode_decode ==
  /\ codec.op = "init"
  /\ \E hops \in 0..MaxPath, control \in ControlFields,
        pid \in {"None", "NONE", "NO_LAYER_3", "ESCAPE"},
        information \in {<<>>, <<<<>>>>, <<<<0>>>>, <<<<240, 65>>>>} :
    /\ (pid # "None") <=> FlagAnd(control.frame_type, I_FRAME \cup {"UNN_UI"})
    /\ \/ information \in {<<>>, <<<<>>>>}
       \/ FlagAnd(control.frame_type,
                  I_FRAME \cup {"UNN_UI", "UNN_FRMR", "UNN_XID", "UNN_TEST"})
    /\ \E frame \in {[AX25Frame(AX25AddressField(Stations[1], Stations[2],
                                                 [i \in 1..hops |-> Stations[1 + (i % 2)]],
                                                 14 + 7 * hops),
                                [control EXCEPT !.length = 1], pid)
                        EXCEPT !.information = information]} :
         \E encoded \in {AX25Frame_encode(frame)} :
           /\ codec' = [op |-> "frame_encode_decode",
                        frame |-> frame,
                        encoded |-> encoded,
                        decoded |-> AX25Frame_decode(encoded.bytes)]
           /\ UNCHANGED <<connection_vars, timer_vars, client_vars, controller_vars,
                          listen_vars>>

\* received frame data is decoded and the frame is encoded again
frame_decode_encode ==
  /\ codec.op = "init"
  /\ \E frame_data \in {FRAME_DATA} :
     \E decoded \in {AX25Frame_decode(frame_data)} :
    /\ codec' = [op |-> "frame_decode_encode",
                 frame_data |-> frame_data,
                 decoded |-> decoded,
                 encoded |-> AX25Frame_encode(decoded)]
    /\ UNCHANGED <<connection_vars, timer_vars, client_vars, controller_vars, listen_vars>>

\* a command frame is received (decoded from its bytes) and the UA or DM
\* response to it is built and encoded
response_encode ==
  /\ codec.op = "init"
  /\ \E hops \in 0..MaxPath, u \in {"UNN_SABM", "UNN_SABME", "UNN_DISC"},
        poll \in BOOLEAN, poll_final \in BOOLEAN, kind \in {"ua_response", "dm_response"} :
      \E axframe \in {AX25Frame_decode(AX25Frame_encode(
            AX25Frame(AX25AddressField(Stations[1], Stations[2],
                                       [i \in 1..hops |-> Stations[1 + (i % 2)]], 0),
                      [AX25ControlField(Unn(u), poll) EXCEPT !.sequence = -1, !.receive = -1],
                      "None")).bytes)} :
        \E response \in {IF kind = "ua_response" THEN ua_response(axframe, poll_final)
                                                  ELSE dm_response(axframe, poll_final)} :
          /\ codec' = [op |-> kind,
                       axframe |-> axframe,
                       response |-> response,
                       encoded |-> AX25Frame_encode(response)]
          /\ UNCHANGED <<connection_vars, timer_vars, client_vars, controller_vars, listen_vars>>

\* the study of the AX.25 codec
NextFrame ==
  \/ address_encode_decode
  \/ address_field_encode_decode
  \/ control_field_encode_decode
  \/ frame_encode_decode
  \/ frame_decode_encode
  \/ response_encode

SpecFrame == Init /\ [][NextFrame]_vars

\* ------------------------------------------------------------------------
\* Inbound data: KISSTCPClient.listen_loop reads a chunk, decodes it as KISS
\* and creates a task per frame; each task runs AX25Client.recieve_frame
\* ------------------------------------------------------------------------

\* a UI frame from WB7GR-9 to TQ0YVW with one byte of information, encoded
WellFormed ==
  AX25Frame_encode([AX25Frame(AX25AddressField(Stations[1], Stations[2], <<>>, 14),
                              [AX25ControlField(Unn("UNN_UI"), FALSE)
                                 EXCEPT !.length = 1, !.sequence = -1, !.receive = -1],
                              "NO_LAYER_3")
                      EXCEPT !.information = <<<<84>>>>]).bytes

\* what the peer may send in a chunk, each piece between its own FENDs: the
\* well-formed frame; a type byte whose command code is undefined; the
\* frame cut inside its address field, after its address field, and after
\* its control byte; and the frame with an undefined PID
Pieces ==
  {KISSFrame_encode(KISSFrame(WellFormed, 0, 0)),
   <<FEND, 15, 84, FEND>>,
   KISSFrame_encode(KISSFrame(SubSeq(WellFormed, 1, 10), 0, 0)),
   KISSFrame_encode(KISSFrame(SubSeq(WellFormed, 1, 14), 0, 0)),
   KISSFrame_encode(KISSFrame(SubSeq(WellFormed, 1, 15), 0, 0)),
   KISSFrame_encode(KISSFrame(SubSeq(WellFormed, 1, 15) \o <<2, 84>>, 0, 0))}

\* the exception AX25Frame.decode raises on frame data, "none" when it
\* returns: AX25Address.decode reads address_bytes[6] of every 7 byte slice
\* of the address field, AX25ControlField.decode reads field_bytes[0],
\* AX25Frame.decode reads frame_data[offset] for the PID and looks it up in
\* AX25PID
AX25Frame_decode_raises(frame_data) ==
  LET ends == {i \in 1..Len(frame_data) : frame_data[i] % 2 = 1}
      length == IF ends = {} THEN Len(frame_data)
                ELSE CHOOSE i \in ends : \A j \in ends : i <= j
      has_pid == BitAnd(frame_data[length + 1], 1) = 0 \/ BitAnd(frame_data[length + 1], 239) = 3
  IN  IF length < 14 \/ length % 7 # 0 THEN "IndexError"
      ELSE IF Len(frame_data) < length + 1 THEN "IndexError"
      ELSE IF ~has_pid THEN "none"
      ELSE IF Len(frame_data) < length + 2 THEN "IndexError"
      ELSE IF \A name \in DOMAIN AX25PID : AX25PID[name] # frame_data[length + 2]
      THEN "ValueError"
      ELSE "none"

\* one turn of KISSTCPClient.listen_loop with data read: KISSFrame.decode,
\* then a task per frame.  Only TimeoutError is caught: any other exception
\* of decode leaves the coroutine, before a single task of the chunk is
\* created, and the loop is over.  sent counts the well-formed frames the
\* peer has sent so far.
listen_loop_data ==
  /\ transport.loop = "running"
  /\ transport.reads < MaxReads
  /\ \E pieces \in BytesUpTo(Pieces, MaxPieces) \ {<<>>} :
       \E frames \in {KISSFrame_decode(
                        IF Len(pieces) = 1 THEN pieces[1]
                        ELSE IF Len(pieces) = 2 THEN pieces[1] \o pieces[2]
                        ELSE pieces[1] \o pieces[2] \o pieces[3])} :
         /\ transport' =
              [transport EXCEPT
                 !.reads = @ + 1,
                 !.sent = @ + Cardinality({i \in 1..Len(pieces) :
                                             pieces[i] = KISSFrame_encode(KISSFrame(WellFormed, 0, 0))}),
                 !.loop = IF frames.error = "none" THEN "running" ELSE frames.error,
                 !.pending = @ \o frames.frames]
         /\ UNCHANGED <<connection_vars, timer_vars, client_vars, controller_vars,
                        tasks, listen_hist, codec>>

\* AX25Client.recieve_frame in the oldest task: AX25Frame.decode, then the
\* data callbacks; any exception is caught and logged
recieve_frame ==
  /\ transport.pending # <<>>
  /\ \E raised \in {AX25Frame_decode_raises(Head(transport.pending).data)} :
       /\ transport' =
            [transport EXCEPT
               !.pending = Tail(@),
               !.received = IF raised = "none"
                            THEN Append(@, AX25Frame_decode(Head(transport.pending).data))
                            ELSE @,
               !.logged = IF raised = "none" THEN @ ELSE @ + 1]
       /\ UNCHANGED <<connection_vars, timer_vars, client_vars, controller_vars,
                      tasks, listen_hist, codec>>

\* the study of inbound data
NextInbound ==
  \/ listen_loop_data
  \/ recieve_frame

SpecInbound == Init /\ [][NextInbound]_vars

\* the study of the Timer
SpecTimer == Init /\ [][NextTimer]_vars

\* the study of the send queue
SpecQueue == Init /\ [][NextQueue]_vars

\* the study of the controller's routing
SpecRouting == Init /\ [][NextRouting]_vars

\* the study of the controller's shutdown
SpecShutdown == Init /\ [][NextShutdown]_vars

SpecClients == Init /\ [][NextClients]_vars

\* the graceful shutdown under the scheduling of asyncio: the task of
\* AX25Connection.start runs, the loops of the controller and of every
\* connection take their turns (they sleep 5 s and 0.1 s between turns), and
\* the peers answer
SpecGraceful ==
  /\ Init
  /\ [][NextGraceful]_vars
  /\ WF_vars(connection_start)
  /\ WF_vars(ConnectionSweep)
  /\ WF_vars(ControllerSweep)
  /\ WF_vars(release_answered)

\* ------------------------------------------------------------------------
\* Types
\* ------------------------------------------------------------------------

TypeOK ==
  /\ state \in ConnectionStates
  /\ modulo \in Modulos
  /\ peer_busy \in BOOLEAN
  /\ keepalive_timer \in TimerStates
  /\ outstanding_i_frame_timer \in TimerStates
  /\ Len(outgoing_frames) <= MaxQueue
  /\ Len(ui_handlers) <= MaxHandlers
  /\ error \in {"none", "TimerError", "ValueError"}
  /\ timer_obj._state \in TimerStates
  /\ timer_obj._timeout \in TimeoutValues
  /\ timer_obj._task \in TaskStates
  /\ timer_hist.starts <= MaxStarts
  /\ Len(client_outgoing) <= MaxFrames
  /\ \A i \in 1..Len(client_outgoing) : client_outgoing[i].priority \in Priorities
  /\ \A i \in 1..Len(connections) :
       /\ connections[i]._state \in ConnectionStates
       /\ Len(connections[i]._incoming) <= MaxIncoming
  /\ Len(listeners) <= Cardinality(ListenerCalls)
  /\ Len(ui_callbacks) <= Cardinality(UICallbacks)
  /\ controller.loop \in {"none", "running", "returned", "RuntimeError"}
  /\ Len(tasks) <= MaxTasks
  /\ \A k \in 1..Len(tasks) :
       /\ tasks[k].pc \in {"created", "suspended"}
       /\ tasks[k].at \in 0..MaxHandlers
  /\ \A i \in 1..Len(timer_hist.calls) : timer_hist.calls[i] \in TimerResults
  /\ transport.loop \in {"running", "ValueError", "IndexError"}
  /\ transport.reads \in 0..MaxReads

\* ------------------------------------------------------------------------
\* Vocabulary of the properties
\* ------------------------------------------------------------------------

\* the last step was a call of handle_ax25_frame that found the connection
\* in state s
HandledIn(s) == op = "frame" /\ pre.state = s

\* the handled frame is of unnumbered type u / supervisory type t
InU(u) == inframe.control_field.frame_type = {"U_FRAME", u}

InS(t) == inframe.control_field.frame_type = {"S_FRAME", t}

\* P/F bit of the handled frame
InPF == inframe.control_field.poll_final

\* control field of a response of unnumbered type u with the given P/F
Ctl(u, pf) == AX25ControlField({"U_FRAME", u}, pf)

\* the step added exactly one frame to the queue as it was, a response with
\* control field ctl addressed to the sender of the handled frame
EnqueuedOne(ctl) ==
  /\ Len(outgoing_frames) = Len(pre.outgoing_frames) + 1
  /\ SubSeq(outgoing_frames, 1, Len(pre.outgoing_frames)) = pre.outgoing_frames
  /\ outgoing_frames[Len(outgoing_frames)].control_field = ctl
  /\ outgoing_frames[Len(outgoing_frames)].address_field.destination.callsign
       = inframe.address_field.source.callsign

\* the step added nothing to the queue and took nothing from it
EnqueuedNone == outgoing_frames = pre.outgoing_frames

\* the three sequence variables are zero
SequenceZero ==
  sequence_number = 0 /\ receive_sequence_number = 0 /\ ack_sequence_number = 0

\* the step left the sequence variables as they were
SequenceSame ==
  /\ sequence_number = pre.sequence_number
  /\ receive_sequence_number = pre.receive_sequence_number
  /\ ack_sequence_number = pre.ack_sequence_number

\* the step left both timers as they were
TimersSame ==
  /\ keepalive_timer = pre.keepalive_timer
  /\ outstanding_i_frame_timer = pre.outstanding_i_frame_timer

\* remote_address names the station that sent the handled frame
RemoteIsSender ==
  /\ remote_address.callsign = inframe.address_field.source.callsign
  /\ remote_address.ssid = inframe.address_field.source.ssid

\* ------------------------------------------------------------------------
\* Properties
\* ------------------------------------------------------------------------

\* C1: in every reachable DISCONNECTED state whose modulo is not MOD_128,
\* fresh or back from CONNECTED, handling one SABM leaves exactly one UA with
\* the SABM's P/F in the outgoing queue, makes the SABM's sender the remote
\* address, leaves T3 RUNNING and ends in CONNECTED.
C1_SabmConnects ==
  (HandledIn("DISCONNECTED") /\ InU("UNN_SABM") /\ pre.modulo # "MOD_128")
    => /\ state = "CONNECTED"
       /\ Len(outgoing_frames) = 1
       /\ outgoing_frames[1].control_field = Ctl("UNN_UA", InPF)
       /\ RemoteIsSender
       /\ keepalive_timer = "RUNNING"

\* C2: every DISC handled in CONNECTED leaves a UA with the DISC's P/F in the
\* outgoing queue when handle_ax25_frame returns, and the state is
\* DISCONNECTED.
C2_DiscAnswered ==
  (HandledIn("CONNECTED") /\ InU("UNN_DISC"))
    => /\ state = "DISCONNECTED"
       /\ \E i \in 1..Len(outgoing_frames) :
            outgoing_frames[i].control_field = Ctl("UNN_UA", InPF)

\* C3: in DISCONNECTED a SABM met with modulo MOD_128, or a SABME met with
\* modulo MOD_8, enqueues exactly one DM with the request's P/F and leaves
\* state, modulo, remote address and timers as they were.
C3_ModuloMismatch ==
  (HandledIn("DISCONNECTED")
     /\ \/ InU("UNN_SABM") /\ pre.modulo = "MOD_128"
        \/ InU("UNN_SABME") /\ pre.modulo = "MOD_8")
    => /\ EnqueuedOne(Ctl("UNN_DM", InPF))
       /\ state = "DISCONNECTED"
       /\ modulo = pre.modulo
       /\ remote_address = pre.remote_address
       /\ TimersSame
       /\ error = "none"

\* a SABM with P/F set was refused with a DM by a DISCONNECTED connection
\* committed to MOD_128
C3_Witness ==
  /\ HandledIn("DISCONNECTED") /\ InU("UNN_SABM") /\ InPF
  /\ pre.modulo = "MOD_128"
  /\ outgoing_frames # <<>>
  /\ outgoing_frames[Len(outgoing_frames)].control_field = Ctl("UNN_DM", TRUE)

\* C4: a frame with poll=1 handled in DISCONNECTED that calls for a DM (UI,
\* DISC, or a SABM/SABME of the wrong modulo) enqueues exactly one DM with
\* final=1 and leaves the state DISCONNECTED; a UI frame with poll=0 handled
\* in DISCONNECTED enqueues nothing.
C4_PollGetsFinalDm ==
  /\ (HandledIn("DISCONNECTED") /\ InPF
        /\ \/ InU("UNN_UI")
           \/ InU("UNN_DISC")
           \/ InU("UNN_SABM") /\ pre.modulo = "MOD_128"
           \/ InU("UNN_SABME") /\ pre.modulo = "MOD_8")
       => EnqueuedOne(Ctl("UNN_DM", TRUE)) /\ state = "DISCONNECTED"
  /\ (HandledIn("DISCONNECTED") /\ InU("UNN_UI") /\ ~InPF)
       => EnqueuedNone /\ state = "DISCONNECTED"

\* a DISC with poll=1 was answered with a DM with final=1 by a DISCONNECTED
\* connection whose queue already held a frame
C4_Witness ==
  /\ HandledIn("DISCONNECTED") /\ InU("UNN_DISC") /\ InPF
  /\ Len(pre.outgoing_frames) = 1
  /\ Len(outgoing_frames) = 2
  /\ outgoing_frames[2].control_field = Ctl("UNN_DM", TRUE)

\* C5: in AWAITING_CONNECTION the state changes only on a UA or DM with P/F
\* set: such a UA makes the sender the remote address, zeroes V(S), V(R), V(A)
\* and moves to CONNECTED with an empty queue; such a DM resets and moves to
\* DISCONNECTED with an empty queue; a UA or DM without P/F leaves state,
\* sequence variables and queue as they were.
C5_AwaitingConnectionReplies ==
  /\ (HandledIn("AWAITING_CONNECTION") /\ state # "AWAITING_CONNECTION")
       => (InU("UNN_UA") \/ InU("UNN_DM")) /\ InPF
  /\ (HandledIn("AWAITING_CONNECTION") /\ InU("UNN_UA") /\ InPF)
       => /\ state = "CONNECTED"
          /\ remote_address = inframe.address_field.source
          /\ SequenceZero
          /\ outgoing_frames = <<>>
  /\ (HandledIn("AWAITING_CONNECTION") /\ InU("UNN_DM") /\ InPF)
       => /\ state = "DISCONNECTED"
          /\ SequenceZero
          /\ outgoing_frames = <<>>
  /\ (HandledIn("AWAITING_CONNECTION") /\ (InU("UNN_UA") \/ InU("UNN_DM")) /\ ~InPF)
       => /\ state = "AWAITING_CONNECTION"
          /\ SequenceSame
          /\ EnqueuedNone

\* a UA with P/F set moved an AWAITING_CONNECTION connection that had a frame
\* queued and no peer yet to CONNECTED
C5_Witness ==
  /\ HandledIn("AWAITING_CONNECTION") /\ InU("UNN_UA") /\ InPF
  /\ pre.outgoing_frames # <<>>
  /\ pre.remote_address = None
  /\ state = "CONNECTED"

\* C6: in AWAITING_CONNECTION each SABM enqueues exactly one UA and each
\* SABME or DISC exactly one DM, with the P/F of the received frame, and the
\* state stays AWAITING_CONNECTION.
C6_AwaitingConnectionRequests ==
  /\ (HandledIn("AWAITING_CONNECTION") /\ InU("UNN_SABM"))
       => EnqueuedOne(Ctl("UNN_UA", InPF)) /\ state = "AWAITING_CONNECTION"
  /\ (HandledIn("AWAITING_CONNECTION") /\ (InU("UNN_SABME") \/ InU("UNN_DISC")))
       => EnqueuedOne(Ctl("UNN_DM", InPF)) /\ state = "AWAITING_CONNECTION"

\* a SABM with P/F set was answered with a UA with P/F set in
\* AWAITING_CONNECTION, behind a frame already queued
C6_Witness ==
  /\ HandledIn("AWAITING_CONNECTION") /\ InU("UNN_SABM") /\ InPF
  /\ Len(pre.outgoing_frames) = 1
  /\ Len(outgoing_frames) = 2
  /\ outgoing_frames[2].control_field = Ctl("UNN_UA", TRUE)

\* C7: in AWAITING_RELEASE every SABM and every SABME, whatever its P/F,
\* enqueues exactly one DM with P/F=true, and the state stays
\* AWAITING_RELEASE.
C7_AwaitingReleaseRequests ==
  (HandledIn("AWAITING_RELEASE") /\ (InU("UNN_SABM") \/ InU("UNN_SABME")))
    => EnqueuedOne(Ctl("UNN_DM", TRUE)) /\ state = "AWAITING_RELEASE"

\* C8: in AWAITING_RELEASE every supervisory frame (RR, RNR, REJ, SREJ) leaves
\* the state AWAITING_RELEASE and enqueues exactly one DM with P/F=true if its
\* P/F is set and nothing if it is clear.
C8_AwaitingReleaseSupervisory ==
  (HandledIn("AWAITING_RELEASE") /\ \E t \in SupTypes : InS(t))
    => /\ state = "AWAITING_RELEASE"
       /\ IF InPF THEN EnqueuedOne(Ctl("UNN_DM", TRUE)) ELSE EnqueuedNone

\* a REJ with P/F set was answered with a DM with P/F=true in AWAITING_RELEASE
C8_Witness ==
  /\ HandledIn("AWAITING_RELEASE") /\ InS("SUP_REJ") /\ InPF
  /\ outgoing_frames # <<>>
  /\ outgoing_frames[Len(outgoing_frames)].control_field = Ctl("UNN_DM", TRUE)

\* C9: in AWAITING_RELEASE a DISC enqueues exactly one UA with the DISC's P/F
\* and the state stays; a UA or DM with P/F set zeroes V(S), V(R), V(A),
\* empties the queue and moves to DISCONNECTED; a UA or DM with P/F clear
\* changes nothing.
C9_AwaitingReleaseReplies ==
  /\ (HandledIn("AWAITING_RELEASE") /\ InU("UNN_DISC"))
       => EnqueuedOne(Ctl("UNN_UA", InPF)) /\ state = "AWAITING_RELEASE"
  /\ (HandledIn("AWAITING_RELEASE") /\ (InU("UNN_UA") \/ InU("UNN_DM")) /\ InPF)
       => /\ state = "DISCONNECTED"
          /\ SequenceZero
          /\ outgoing_frames = <<>>
  /\ (HandledIn("AWAITING_RELEASE") /\ (InU("UNN_UA") \/ InU("UNN_DM")) /\ ~InPF)
       => Self = pre

\* a UA with P/F set released an AWAITING_RELEASE connection that still had a
\* frame queued
C9_Witness ==
  /\ HandledIn("AWAITING_RELEASE") /\ InU("UNN_UA") /\ InPF
  /\ pre.outgoing_frames # <<>>
  /\ state = "DISCONNECTED"

\* C10: in DISCONNECTED, AWAITING_CONNECTION, AWAITING_RELEASE and CONNECTED a
\* received UI frame is passed exactly once to every registered UI handler,
\* in registration order, and the state is unchanged; outside CONNECTED
\* exactly one DM with P/F=true is enqueued iff the frame's P/F is set, in
\* CONNECTED nothing is enqueued.
C10_UiDelivery ==
  (op = "frame" /\ InU("UNN_UI")
     /\ pre.state \in {"DISCONNECTED", "AWAITING_CONNECTION", "AWAITING_RELEASE", "CONNECTED"})
    => /\ Len(ui_calls) = Len(pre.ui_handlers)
       /\ \A i \in 1..Len(ui_calls) :
            ui_calls[i].handler = pre.ui_handlers[i] /\ ui_calls[i].frame = inframe
       /\ state = pre.state
       /\ IF pre.state # "CONNECTED" /\ InPF
            THEN EnqueuedOne(Ctl("UNN_DM", TRUE))
            ELSE EnqueuedNone

\* a UI frame with P/F set reached two different handlers of an
\* AWAITING_RELEASE connection and was answered with a DM
C10_Witness ==
  /\ HandledIn("AWAITING_RELEASE") /\ InU("UNN_UI") /\ InPF
  /\ Len(pre.ui_handlers) = 2
  /\ pre.ui_handlers[1] # pre.ui_handlers[2]
  /\ Len(ui_calls) = 2
  /\ outgoing_frames # <<>>

\* C11: for every start of the Timer, whatever expiry and stop calls follow
\* it, the callback has been invoked at most once for that start: once with
\* EXPIRED and nothing else when the timer is EXPIRED, once with CANCELLED and
\* nothing else when it has been stopped, and not at all while it is RUNNING.
C11_CallbackOncePerStart ==
  timer_hist.starts > 0
    => /\ Len(timer_hist.calls) <= 1
       /\ timer_obj._state = "RUNNING" => timer_hist.calls = <<>>
       /\ timer_obj._state = "EXPIRED" => timer_hist.calls = <<"EXPIRED">>
       /\ timer_obj._state = "STOPPED" => timer_hist.calls = <<"CANCELLED">>

\* C12: start on a RUNNING timer, stop on a STOPPED timer and a timeout
\* assignment on a RUNNING timer each raise TimerError, leave state, timeout
\* and task as they were, create no task and invoke no callback; a timeout
\* assignment on a timer that is not RUNNING raises nothing and stores the
\* value, changing nothing else.
C12_TimerMisuse ==
  /\ (\/ timer_hist.op = "start" /\ timer_hist.pre._state = "RUNNING"
      \/ timer_hist.op = "stop" /\ timer_hist.pre._state = "STOPPED"
      \/ timer_hist.op = "set_timeout" /\ timer_hist.pre._state = "RUNNING")
       => /\ timer_hist.error = "TimerError"
          /\ timer_obj = timer_hist.pre
          /\ timer_hist.starts = timer_hist.pre_starts
          /\ timer_hist.step_calls = <<>>
  /\ (timer_hist.op = "set_timeout" /\ timer_hist.pre._state # "RUNNING")
       => /\ timer_hist.error = "none"
          /\ timer_obj = [timer_hist.pre EXCEPT !._timeout = timer_hist.arg]
          /\ timer_hist.step_calls = <<>>

\* start was called on a RUNNING timer whose task was still sleeping, and
\* raised TimerError
C12_Witness ==
  /\ timer_hist.op = "start"
  /\ timer_hist.pre._state = "RUNNING"
  /\ timer_hist.pre._task = "pending"
  /\ timer_hist.error = "TimerError"

\* C13: the Timer starts STOPPED, and every operation that changes its state
\* is one of three: start taking STOPPED to RUNNING, natural expiry taking
\* RUNNING to EXPIRED, stop taking RUNNING to STOPPED.
C13_ThreeTransitions ==
  /\ timer_hist.op = "init" => timer_obj._state = "STOPPED"
  /\ timer_obj._state # timer_hist.pre._state
       => \/ /\ timer_hist.op = "start"
             /\ timer_hist.pre._state = "STOPPED" /\ timer_obj._state = "RUNNING"
          \/ /\ timer_hist.op = "expire"
             /\ timer_hist.pre._state = "RUNNING" /\ timer_obj._state = "EXPIRED"
          \/ /\ timer_hist.op = "stop"
             /\ timer_hist.pre._state = "RUNNING" /\ timer_obj._state = "STOPPED"

\* the places in a registry of the connections made for the identity that
\* (destination, source, transport, port) of a frame give
ConnectionsFor(registry, frame, source, kiss_port) ==
  { i \in 1..Len(registry) :
      /\ registry[i]._local = call_with_ssid(frame.address_field.destination)
      /\ registry[i]._remote = call_with_ssid(frame.address_field.source)
      /\ registry[i]._client = source
      /\ registry[i]._port = kiss_port }

\* some registered listener has the destination callsign of the frame
ListenedFor(frame) ==
  \E i \in 1..Len(listeners) :
    listeners[i].callsign = call_with_ssid(frame.address_field.destination)

\* number of times x occurs in a sequence
Occurrences(seq, x) == Cardinality({i \in 1..Len(seq) : seq[i] = x})

\* the queue `new` holds what `old` held and one more item, x
AddedOne(old, new, x) ==
  /\ Len(new) = Len(old) + 1
  /\ \A i \in 1..Len(new) :
       Occurrences(new, new[i]) = Occurrences(old, new[i]) + (IF new[i] = x THEN 1 ELSE 0)
  /\ Occurrences(new, x) > 0

\* two frames with the same stations and the same control field
SameFrame(a, b) ==
  /\ call_with_ssid(a.address_field.source) = call_with_ssid(b.address_field.source)
  /\ call_with_ssid(a.address_field.destination) = call_with_ssid(b.address_field.destination)
  /\ a.control_field = b.control_field

\* C14: every frame handed to data_recieved is routed by the first of four
\* rules that applies.  A connection registered for its identity gets the
\* frame and nothing else happens (no observer called, no DM, no new
\* connection).  Otherwise a UI frame goes to every UI observer in order, and
\* one DM with P/F=true is queued at priority 1 iff its P/F is set.  Otherwise
\* a destination with a registered listener gets one new connection.
\* Otherwise registry and send queue are left as they were.
C14_RoutingPriority ==
  [][ctl_hist'.op = "data_recieved" =>
      LET f == ctl_hist'.inframe
          hit == ConnectionsFor(connections, f, ctl_hist'.source, ctl_hist'.kiss_port)
      IN  IF hit # {} THEN
            /\ \E i \in hit :
                 connections' = [connections EXCEPT ![i]._incoming = Append(@, f)]
            /\ client_outgoing' = client_outgoing
            /\ ctl_hist'.ui_calls = <<>>
            /\ ctl_hist'.accepts = <<>>
          ELSE IF f.control_field.frame_type = Unn("UNN_UI") THEN
            /\ connections' = connections
            /\ Len(ctl_hist'.ui_calls) = Len(ui_callbacks)
            /\ \A i \in 1..Len(ui_callbacks) :
                 /\ ctl_hist'.ui_calls[i].callback = ui_callbacks[i]
                 /\ SameFrame(ctl_hist'.ui_calls[i].axframe, f)
            /\ IF f.control_field.poll_final
                 THEN \E i \in 1..Len(client_outgoing') :
                        /\ AddedOne(client_outgoing, client_outgoing', client_outgoing'[i])
                        /\ client_outgoing'[i].priority = 1
                        /\ client_outgoing'[i].port = ctl_hist'.kiss_port
                        /\ client_outgoing'[i].axframe.control_field = Ctl("UNN_DM", TRUE)
                        /\ call_with_ssid(client_outgoing'[i].axframe.address_field.destination)
                             = call_with_ssid(f.address_field.source)
                 ELSE client_outgoing' = client_outgoing
            /\ ctl_hist'.accepts = <<>>
          ELSE IF ListenedFor(f) THEN
            /\ Len(connections') = Len(connections) + 1
            /\ SubSeq(connections', 1, Len(connections)) = connections
            /\ ConnectionsFor(connections', f, ctl_hist'.source, ctl_hist'.kiss_port)
                 = {Len(connections')}
            /\ client_outgoing' = client_outgoing
            /\ ctl_hist'.ui_calls = <<>>
          ELSE
            /\ connections' = connections
            /\ client_outgoing' = client_outgoing
            /\ ctl_hist'.ui_calls = <<>>
            /\ ctl_hist'.accepts = <<>>
     ]_vars

\* a UI frame with P/F set arrived for the identity of a registered
\* connection while two observers and another connection were registered: it
\* went to the connection's queue and no observer was called
C14_Witness ==
  /\ ctl_hist.op = "data_recieved"
  /\ ctl_hist.inframe.control_field = Ctl("UNN_UI", TRUE)
  /\ Len(ui_callbacks) = 2
  /\ Len(connections) = 2
  /\ ctl_hist.ui_calls = <<>>
  /\ \E i \in ConnectionsFor(connections, ctl_hist.inframe, ctl_hist.source, ctl_hist.kiss_port) :
       connections[i]._incoming[Len(connections[i]._incoming)] = ctl_hist.inframe

\* C15: a frame that is not UI, has no connection registered for its identity
\* and is addressed to a callsign with a registered listener creates exactly
\* one connection for that identity, holding the frame, at the end of the
\* registry, and calls exactly once the accept callback of the listener of
\* that callsign, with the new connection.
C15_ListenerAccepts ==
  [][(/\ ctl_hist'.op = "data_recieved"
      /\ ConnectionsFor(connections, ctl_hist'.inframe, ctl_hist'.source, ctl_hist'.kiss_port) = {}
      /\ ctl_hist'.inframe.control_field.frame_type # Unn("UNN_UI")
      /\ ListenedFor(ctl_hist'.inframe))
     => /\ Len(connections') = Len(connections) + 1
        /\ ConnectionsFor(connections', ctl_hist'.inframe, ctl_hist'.source, ctl_hist'.kiss_port)
             = {Len(connections')}
        /\ connections'[Len(connections')]._incoming = <<ctl_hist'.inframe>>
        /\ Len(ctl_hist'.accepts) = 1
        /\ ctl_hist'.accepts[1].callback
             = AX25Listener(call_with_ssid(ctl_hist'.inframe.address_field.destination)).incoming_callback
        /\ ctl_hist'.accepts[1].connection \in ctl_hist'.created
     ]_vars

\* the connections of a registry that are active, in its order: those a turn
\* of the controller's loop keeps
RECURSIVE Live(_)
Live(registry) ==
  IF registry = <<>> THEN <<>>
  ELSE (IF Head(registry)._active THEN <<Head(registry)>> ELSE <<>>) \o Live(Tail(registry))

\* C16: once a graceful stop of the controller has been requested, every turn
\* of its handling loop asks exactly the live registered connections that are
\* not in AWAITING_RELEASE to stop, and the loop ends only in a turn that
\* leaves the registry empty, never with a connection still registered.
C16_GracefulShutdown ==
  [][(/\ ctl_hist'.op = "sweep"
      /\ controller._shutdown_requested
      /\ controller._active)
     => /\ ctl_hist'.stop_requests = NotReleasing(Live(connections))
        /\ controller'.loop # "running" => connections' = <<>>
     ]_vars

\* C17: every graceful stop of a connection, asked by its owner or by the
\* controller's shutdown, puts exactly one DISC with P=1 from the local to the
\* remote callsign on the transport's send queue and leaves the connection in
\* AWAITING_RELEASE.
C17_GracefulStop ==
  [][ctl_hist'.op \in {"connection_stop", "sweep"}
     => /\ Len(client_outgoing') = Len(client_outgoing) + Len(ctl_hist'.stop_requests)
        /\ \A k \in 1..Len(ctl_hist'.stop_requests) :
             /\ \E i \in 1..Len(connections') :
                  /\ connection_id(connections'[i]) = ctl_hist'.stop_requests[k]
                  /\ connections'[i]._state = "AWAITING_RELEASE"
             /\ \E i \in 1..Len(client_outgoing') :
                  /\ client_outgoing'[i].axframe.control_field = Ctl("UNN_DISC", TRUE)
                  /\ call_with_ssid(client_outgoing'[i].axframe.address_field.source)
                       = ctl_hist'.stop_requests[k][1]
                  /\ call_with_ssid(client_outgoing'[i].axframe.address_field.destination)
                       = ctl_hist'.stop_requests[k][2]
     ]_vars

\* C18: when every frame of a batch was queued before main_loop took the
\* first one, the frames are handed to the TNC in non-decreasing priority
\* value, and frames of equal priority in the order they were queued.
C18_PriorityThenFifo ==
  ~client_hist.late
    => \A i, j \in 1..Len(client_hist.sent) :
         i < j => /\ client_hist.sent[i].priority <= client_hist.sent[j].priority
                  /\ client_hist.sent[i].priority = client_hist.sent[j].priority
                       => client_hist.sent[i].axframe < client_hist.sent[j].axframe

\* C19: frames are processed in arrival order.  A step of a callback task
\* that reads the connection's state (the task begins), changes it or
\* enqueues a response never runs after a task created later has begun, that
\* is, after a later frame has read the state.
C19_ArrivalOrder ==
  (op = "task" /\ (listen_hist.began \/ state # pre.state
                     \/ outgoing_frames # pre.outgoing_frames))
    => ~listen_hist.behind

C21_T1Retransmits ==
  (op = "t1_expire" /\ pre.state = "CONNECTED")
    => \/ /\ Len(outgoing_frames) = Len(pre.outgoing_frames) + 1
          /\ FlagAnd(outgoing_frames[Len(outgoing_frames)].control_field.frame_type, I_FRAME)
       \/ /\ EnqueuedOne(Ctl("UNN_DM", TRUE)) \/ EnqueuedOne(Ctl("UNN_DM", FALSE))
          /\ state = "DISCONNECTED"
          /\ SequenceZero

\* C22: decoding the encoding of a KISS frame gives that frame alone (for
\* the command RETURN: one RETURN frame with port 0 and no data), and no byte
\* of the encoding but the first and the last is FEND.
C22_KissRoundTrip ==
  codec.op = "kiss_encode_decode"
    => /\ codec.decoded.error = "none"
       /\ codec.decoded.frames =
            <<IF codec.frame.command = RETURN
                THEN KISSFrame(<<>>, RETURN, 0) ELSE codec.frame>>
       /\ \A i \in 2..(Len(codec.encoded) - 1) : codec.encoded[i] # FEND

\* a data frame on port 12, whose type byte is FEND, with FEND and FESC as
\* its data has been encoded and decoded; so has a RETURN frame with data
C22_Witness ==
  /\ codec.op = "kiss_encode_decode"
  /\ \/ codec.frame = KISSFrame(<<FEND, FESC>>, 0, 12)
     \/ codec.frame = KISSFrame(<<84>>, RETURN, 3)

\* the frame that a run of bytes between two FENDs stands for
FrameOfRun(run) ==
  LET u == _unescape_frame(run, FALSE)
  IN  IF u[1] = RETURN THEN KISSFrame(<<>>, RETURN, 0)
      ELSE KISSFrame(Tail(u), BitAnd(u[1], 15), BitAnd(u[1], 240) \div 16)

\* a run of bytes is a frame: it has a type byte, which is RETURN or names a
\* command
IsFrameRun(run) ==
  LET u == _unescape_frame(run, FALSE)
  IN  /\ u # <<>>
      /\ u[1] = RETURN \/ BitAnd(u[1], 15) \in KISSCommand

\* C23: when every non-empty run between two FENDs of a stream is a frame,
\* decode returns the frames of those runs, one each and in stream order,
\* whatever bytes precede the first FEND or follow the last one (these may
\* add a frame at either end of the list).
C23_StreamDecode ==
  codec.op = "kiss_decode"
    => LET runs == split(codec.stream, FEND)
           inner == SelectSeq(SubSeq(runs, 2, Len(runs) - 1), LAMBDA r : r # <<>>)
           lead == IF runs[1] # <<>> /\ Len(runs) > 1 THEN 1 ELSE 0
       IN  (Len(runs) > 2 /\ \A i \in 1..Len(inner) : IsFrameRun(inner[i]))
             => /\ codec.decoded.error = "none"
                /\ Len(codec.decoded.frames) >= lead + Len(inner)
                /\ \A i \in 1..Len(inner) :
                     codec.decoded.frames[lead + i] = FrameOfRun(inner[i])

\* the addresses C25 and C30 call valid: a callsign of 1 to 6 upper-case
\* letters or digits and the numeral of an SSID in 0..15
ValidAddress(address) ==
  /\ Len(address.callsign) \in 1..6
  /\ \A i \in 1..Len(address.callsign) : address.callsign[i] \in (65..90) \cup (48..57)
  /\ address.ssid \in {<<48 + n>> : n \in 0..9} \cup {<<49, 48 + n>> : n \in 0..5}

C25_AddressRoundTrip ==
  /\ (codec.op = "address_encode_decode" /\ ValidAddress(codec.address))
       => /\ codec.encoded.error = "none"
          /\ codec.decoded = <<codec.address>>
  /\ codec.op = "address_field_encode_decode"
       => /\ ValidAddress(codec.field.source) /\ ValidAddress(codec.field.destination)
          /\ \A i \in 1..Len(codec.field.path) : ValidAddress(codec.field.path[i])
          /\ codec.decoded = [codec.field EXCEPT !.length = codec.decoded.length]

\* a field of two different stations and the longest path has come back
C25_Witness ==
  /\ codec.op = "address_field_encode_decode"
  /\ codec.field.source # codec.field.destination
  /\ Len(codec.field.path) = MaxPath
  /\ codec.field.path[1] # codec.field.path[MaxPath]
  /\ codec.decoded.path = codec.field.path

\* C26: every modulo 8 control field encodes to exactly one byte, decoding
\* that byte gives its frame type, poll/final, sequence and receive back, and
\* encoding the decoded field gives the byte back.
C26_ControlRoundTrip ==
  codec.op = "control_field_encode_decode"
    => /\ Len(codec.encoded) = 1
       /\ codec.decoded.frame_type = codec.field.frame_type
       /\ codec.decoded.poll_final = codec.field.poll_final
       /\ codec.decoded.sequence = codec.field.sequence
       /\ codec.decoded.receive = codec.field.receive
       /\ codec.reencoded = codec.encoded

\* the I-frame with N(S) = 6, N(R) = 5 and the poll bit has made the round
\* trip through the byte 0xBC
C26_Witness ==
  /\ codec.op = "control_field_encode_decode"
  /\ codec.field.frame_type = I_FRAME
  /\ codec.field.sequence = 6 /\ codec.field.receive = 5 /\ codec.field.poll_final
  /\ codec.encoded = <<188>>
  /\ codec.decoded.sequence = 6 /\ codec.decoded.receive = 5

\* C27: a frame has a PID iff its control field is an I-frame or a UI frame,
\* and a UA or DM response encodes to its address field followed by the
\* control byte only.
C27_PidPresence ==
  /\ codec.op = "frame_encode_decode"
       => ((codec.decoded.pid # "None")
             <=> FlagAnd(codec.decoded.control_field.frame_type, I_FRAME \cup {"UNN_UI"}))
  /\ codec.op \in {"ua_response", "dm_response"}
       => /\ codec.response.pid = "None"
          /\ codec.encoded.bytes =
               AX25AddressField_encode(codec.response.address_field).bytes
                 \o AX25ControlField_encode(codec.response.control_field)

\* C28: the response field of a received address field has the received
\* destination as its source with the command/repeat bit set, the received
\* source as its destination with the bit clear, and the received path in
\* reverse order with the bit of every entry clear.
C28_ResponseField ==
  codec.op = "address_field_encode_decode"
    => /\ codec.response.source =
            [codec.decoded.destination EXCEPT !.command_repeat_bit = TRUE]
       /\ codec.response.destination =
            [codec.decoded.source EXCEPT !.command_repeat_bit = FALSE]
       /\ Len(codec.response.path) = Len(codec.decoded.path)
       /\ \A i \in 1..Len(codec.decoded.path) :
            codec.response.path[i] =
              [codec.decoded.path[Len(codec.decoded.path) + 1 - i]
                 EXCEPT !.command_repeat_bit = FALSE]

\* a received field from one station to another over three digipeaters, the
\* first and the last different, has been answered
C28_Witness ==
  /\ codec.op = "address_field_encode_decode"
  /\ codec.decoded.source # codec.decoded.destination
  /\ Len(codec.decoded.path) = 3
  /\ codec.decoded.path[1].callsign # codec.decoded.path[3].callsign
  /\ codec.response.path[1].callsign = codec.decoded.path[3].callsign
  /\ codec.response.source.callsign = codec.decoded.destination.callsign

\* C30: an address whose callsign is longer than 6 characters or has a
\* non-ASCII character, or whose SSID is outside 0..15, is not encoded but
\* rejected with an error; every encoded address is 7 bytes long, and in an
\* encoded address field bit 0 is set on the last byte and on no other.
C30_InvalidAddressRejected ==
  /\ codec.op = "address_encode_decode"
       => /\ (\/ Len(codec.address.callsign) > 6
              \/ \E i \in 1..Len(codec.address.callsign) : codec.address.callsign[i] > 127
              \/ codec.address.ssid \notin
                   {<<48 + n>> : n \in 0..9} \cup {<<49, 48 + n>> : n \in 0..5})
               => codec.encoded.error # "none"
          /\ codec.encoded.error = "none" => Len(codec.encoded.bytes) = 7
  /\ codec.op = "address_field_encode_decode"
       => \A i \in 1..Len(codec.encoded.bytes) :
            (codec.encoded.bytes[i] % 2 = 1) <=> (i = Len(codec.encoded.bytes))

\* C29: a decoding error on inbound data ends neither the listen loop nor
\* the delivery of the well-formed frames: the loop keeps running, and once
\* every task has run, every well-formed frame sent has reached the data
\* callbacks.
C29_DecodeErrorsDropped ==
  /\ transport.loop = "running"
  /\ transport.pending = <<>> => Len(transport.received) = transport.sent

\* C31: a SABM or SABME handled in CONNECTED leaves one UA with the request's
\* P/F in the outgoing queue (behind the frames already queued when V(S) and
\* V(A) differed on arrival, alone otherwise), zeroes V(S), V(R) and V(A),
\* leaves T3 RUNNING, stays CONNECTED and raises nothing.
C31_SabmInConnected ==
  (HandledIn("CONNECTED") /\ (InU("UNN_SABM") \/ InU("UNN_SABME")))
    => /\ state = "CONNECTED"
       /\ error = "none"
       /\ SequenceZero
       /\ keepalive_timer = "RUNNING"
       /\ IF pre.sequence_number # pre.ack_sequence_number
            THEN EnqueuedOne(Ctl("UNN_UA", InPF))
            ELSE /\ Len(outgoing_frames) = 1
                 /\ outgoing_frames[1].control_field = Ctl("UNN_UA", InPF)

\* C32: in DISCONNECTED a DM changes nothing and enqueues nothing, and a
\* frame that is none of SABM, SABME, UI, DISC, DM and whose source carries
\* the command bit enqueues exactly one DM with the frame's P/F; the state
\* stays DISCONNECTED in both cases.
C32_DisconnectedOtherFrames ==
  HandledIn("DISCONNECTED")
    => /\ InU("UNN_DM") => (state = "DISCONNECTED" /\ EnqueuedNone)
       /\ (/\ ~(InU("UNN_SABM") \/ InU("UNN_SABME") \/ InU("UNN_UI")
                  \/ InU("UNN_DISC") \/ InU("UNN_DM"))
           /\ inframe.address_field.source.command_repeat_bit)
            => (state = "DISCONNECTED" /\ EnqueuedOne(Ctl("UNN_DM", InPF)))

\* C33: whenever handling a frame takes the connection into CONNECTED, from
\* DISCONNECTED on a SABM or SABME or from AWAITING_CONNECTION on a UA with
\* P/F, the keepalive timer T3 is RUNNING when the handler returns.
C33_KeepaliveRunsOnConnect ==
  (op = "frame" /\ pre.state # "CONNECTED" /\ state = "CONNECTED")
    => keepalive_timer = "RUNNING"

\* C34: when T3 expires in CONNECTED the expiry enqueues exactly one RR with
\* P set and takes the connection to TIMER_RECOVERY; no other step enters
\* TIMER_RECOVERY.
C34_KeepaliveExpiryPolls ==
  /\ (op = "expire" /\ pre.state = "CONNECTED")
       => /\ state = "TIMER_RECOVERY"
          /\ Len(outgoing_frames) = Len(pre.outgoing_frames) + 1
          /\ outgoing_frames[Len(outgoing_frames)].control_field
               = AX25ControlField({"S_FRAME", "SUP_RR"}, TRUE)
  /\ (state = "TIMER_RECOVERY" /\ pre.state # "TIMER_RECOVERY")
       => (op = "expire" /\ pre.state = "CONNECTED")

\* C35: when handling a frame takes the connection into DISCONNECTED,
\* neither T1 nor T3 is RUNNING when the handler returns, and no timer
\* expires while the connection is DISCONNECTED.
C35_TimersStoppedOnDisconnect ==
  /\ (op = "frame" /\ pre.state # "DISCONNECTED" /\ state = "DISCONNECTED")
       => /\ keepalive_timer # "RUNNING"
          /\ outstanding_i_frame_timer # "RUNNING"
  /\ (op \in {"expire", "t1_expire"}) => state # "DISCONNECTED"

\* C36: a stop() that finds the timer EXPIRED, i.e. called after _on_expire
\* has begun, issues no CANCELLED callback and leaves the timer EXPIRED: the
\* expiry has won.
C36_ExpiryWinsRace ==
  (timer_hist.op = "stop" /\ timer_hist.pre._state = "EXPIRED")
    => /\ "CANCELLED" \notin {timer_hist.step_calls[i] : i \in 1..Len(timer_hist.step_calls)}
       /\ timer_obj._state # "STOPPED"

\* the identities of the connections of a registry, in its order
RegistryIds(registry) == [i \in 1..Len(registry) |-> connection_id(registry[i])]

\* C37: a connection leaves the registry only in a turn of the controller's
\* handling loop, and every turn of the running loop completes without error
\* and leaves registered exactly the connections that were active, whatever
\* the registry held.
C37_SweepRemovesInactive ==
  [][/\ Len(connections') < Len(connections) => ctl_hist'.op = "sweep"
     /\ (ctl_hist'.op = "sweep" /\ controller._active)
          => /\ ctl_hist'.error = "none"
             /\ controller'.loop # "RuntimeError"
             /\ RegistryIds(connections') = RegistryIds(Live(connections))
    ]_vars

\* C38: answering a frame changes no address of it: when a SABM or SABME has
\* been accepted and its UA built, the connection's remote_address, which is
\* the source address of the received frame, is as it was received, command
\* bit included.
C38_ResponseLeavesInput ==
  (HandledIn("DISCONNECTED") /\ (InU("UNN_SABM") \/ InU("UNN_SABME")) /\ state = "CONNECTED")
    => remote_address = inframe.address_field.source

\* C39: a frame that meets a Connection made for its own (destination,
\* source, transport, port) is appended to that Connection and creates none;
\* a connection request that meets none for its own transport, when a
\* listener has its destination, gets a new Connection of its own transport,
\* whatever the other transports have registered.
C39_IdentitiesSeparateLinks ==
  [][ctl_hist'.op = "data_recieved" =>
      LET f == ctl_hist'.inframe
          hit == ConnectionsFor(connections, f, ctl_hist'.source, ctl_hist'.kiss_port)
      IN  /\ hit # {}
               => /\ Len(connections') = Len(connections)
                  /\ \E i \in hit :
                       connections' = [connections EXCEPT ![i]._incoming = Append(@, f)]
          /\ (hit = {} /\ f.control_field.frame_type = Unn("UNN_SABM") /\ ListenedFor(f))
               => /\ Len(connections') = Len(connections) + 1
                  /\ connections'[Len(connections')]._client = ctl_hist'.source
                  /\ SubSeq(connections', 1, Len(connections)) = connections
     ]_vars

\* C40: once a graceful stop has been requested of a running controller with
\* connections registered, the registry eventually becomes empty and the
\* handling loop eventually returns.
C40_GracefulShutdownTerminates ==
  (/\ controller._shutdown_requested
   /\ controller.loop = "running"
   /\ connections # <<>>)
    ~> (connections = <<>> /\ controller.loop = "returned")

====
